---- MODULE Spec2Model ----
(***************************************************************************)
(* A model of weldx's coordinate system manager                            *)
(* (src/weldx/transformations.py): the LocalCoordinateSystem value type    *)
(* with its composition and inversion, and the CoordinateSystemManager     *)
(* graph with add_coordinate_system and get_local_coordinate_system.       *)
(* The serialization of the manager                                        *)
(* (src/weldx/asdf/tags/weldx/core/transformations/                        *)
(* coordinate_system_hierarchy.py) is modelled with it: to_tree, the loop  *)
(* of from_tree step by step, and the extraction of the subsystem data.    *)
(*                                                                         *)
(* Further classes are modelled next to it: the xarray variables behind a  *)
(* LocalCoordinateSystem, Time (src/weldx/time.py),                        *)
(* MeasurementChainGraph (src/weldx/measurement.py) and                    *)
(* MathematicalExpression (src/weldx/core.py).                             *)
(*                                                                         *)
(* The specifications share the variables; each keeps the variables of the *)
(* others at their idle values: Spec (calls on one manager and its         *)
(* export), SpecLcs (operations on coordinate systems), SpecFromTree and   *)
(* SpecFromTreeSubsystems (one call of from_tree), SpecSubsystems (merges  *)
(* and the extraction of the subsystem data), SpecObjects (coordinate      *)
(* systems as objects), SpecTime, SpecChain and SpecExpression.            *)
(*                                                                         *)
(* Matrices are 3x3 tuples of rows of integers, vectors are 3-tuples.  The *)
(* coordinate systems fed to the manager are signed permutation matrices   *)
(* with integer origins, for which the floating point arithmetic of the    *)
(* source is exact.                                                        *)
(***************************************************************************)
EXTENDS Integers, Sequences, FiniteSets, TLC

\* ------------------------------------------------------------------ bounds
\* Number of calls made on one manager.
MaxCalls == 4

\* Number of operations applied to one coordinate system.
MaxLcsOps == 2

\* Number of CoordinateTransformation records in an imported tree.
MaxRecords == 2

\* Number of LocalCoordinateSystem instances that exist at a time.
MaxInstances == 4

\* Number of values of a time axis handed to Time.
MaxTimeLen == 2

\* Number of time axes handed to Time.union.
MaxAxes == 2

\* Number of free symbols of a MathematicalExpression.
MaxSymbols == 2

\* ------------------------------------------------------------ input values
\* Default argument of CoordinateSystemManager.__init__.
base_coordinate_system_name == "base"

Axes == 1..3

\* ------------------------------------------------- numeric helpers (numpy)
Dot(u, v) == u[1] * v[1] + u[2] * v[2] + u[3] * v[3]

Column(m, j) == <<m[1][j], m[2][j], m[3][j]>>

\* Row i of np.matmul(a, b).
MatRow(a, b, i) ==
    <<Dot(a[i], Column(b, 1)), Dot(a[i], Column(b, 2)), Dot(a[i], Column(b, 3))>>

\* np.matmul of two 3x3 matrices.
matmul(a, b) == <<MatRow(a, b, 1), MatRow(a, b, 2), MatRow(a, b, 3)>>

\* ut.mat_vec_mul: np.matmul(a, b[..., np.newaxis]).squeeze()
mat_vec_mul(a, b) == <<Dot(a[1], b), Dot(a[2], b), Dot(a[3], b)>>

\* The data of ut.transpose_xarray_axis_data(da, "c", "v").
transpose_xarray_axis_data(m) == <<Column(m, 1), Column(m, 2), Column(m, 3)>>

VecAdd(u, v) == <<u[1] + v[1], u[2] + v[2], u[3] + v[3]>>

VecNeg(u) == <<0 - u[1], 0 - u[2], 0 - u[3]>>

\* np.eye(3, 3)
eye == <<<<1, 0, 0>>, <<0, 1, 0>>, <<0, 0, 1>>>>

\* np.linalg.norm(vec, axis=-1) of one row; the rows met here have an
\* integer length.
Norm(v) == CHOOSE n \in 0..Dot(v, v) : n * n = Dot(v, v)

NormalizeRow(v) == <<v[1] \div Norm(v), v[2] \div Norm(v), v[3] \div Norm(v)>>

\* normalize: every row (last axis) is divided by its norm.
normalize(m) == <<NormalizeRow(m[1]), NormalizeRow(m[2]), NormalizeRow(m[3])>>

\* ut.xr_is_orthogonal_matrix: a * a.T is the identity.
xr_is_orthogonal_matrix(m) == matmul(m, transpose_xarray_axis_data(m)) = eye

\* ---------------------------------------------------- LocalCoordinateSystem
\* The value a failed call leaves in place of a coordinate system.
NoneValue == [cls |-> "NoneType", basis |-> <<>>, origin |-> <<>>]

\* LocalCoordinateSystem.__init__: normalizes the basis (a zero row raises)
\* and rejects a basis that is not orthogonal.  The set of one element binds
\* the normalized basis to its value.
LocalCoordinateSystem(basis, origin) ==
    IF \E i \in Axes : Dot(basis[i], basis[i]) = 0 THEN NoneValue
    ELSE CHOOSE lcs \in {IF xr_is_orthogonal_matrix(b)
                         THEN [cls |-> "LocalCoordinateSystem", basis |-> b,
                               origin |-> origin]
                         ELSE NoneValue : b \in {normalize(basis)}} : TRUE

\* LocalCoordinateSystem.__add__: R_n = R_r * R_l, T_n = R_r * T_l + T_r
LcsAdd(self, rhs_cs) ==
    LocalCoordinateSystem(matmul(rhs_cs.basis, self.basis),
                          VecAdd(mat_vec_mul(rhs_cs.basis, self.origin), rhs_cs.origin))

\* __sub__ as it would be if the basis of the right-hand side were not
\* transposed.
LcsSub_not_transposed(self, rhs_cs) ==
    LocalCoordinateSystem(matmul(rhs_cs.basis, self.basis),
                          mat_vec_mul(rhs_cs.basis,
                                      VecAdd(self.origin, VecNeg(rhs_cs.origin))))

\* LocalCoordinateSystem.__sub__: R_n = R_r^(-1) * R_l, T_n = R_r^(-1) * (T_l - T_r);
\* the core dimensions ["v", "c"] hand the basis of the right-hand side over
\* transposed.
LcsSub(self, rhs_cs) ==
    LocalCoordinateSystem(matmul(transpose_xarray_axis_data(rhs_cs.basis), self.basis),
                          mat_vec_mul(transpose_xarray_axis_data(rhs_cs.basis),
                                      VecAdd(self.origin, VecNeg(rhs_cs.origin))))

\* invert as it would be if the origin were not negated.
invert_origin_not_negated(self) ==
    LocalCoordinateSystem(transpose_xarray_axis_data(self.basis),
                          mat_vec_mul(transpose_xarray_axis_data(self.basis),
                                      self.origin))

\* LocalCoordinateSystem.invert: basis_new = basis.T, origin_new = basis.T * (-origin)
invert(self) ==
    LocalCoordinateSystem(transpose_xarray_axis_data(self.basis),
                          mat_vec_mul(transpose_xarray_axis_data(self.basis),
                                      VecNeg(self.origin)))

\* The default arguments of LocalCoordinateSystem.__init__.
IdentityLcs == LocalCoordinateSystem(eye, <<0, 0, 0>>)

\* Coordinate systems passed to add_coordinate_system: a quarter turn about z
\* and a quarter turn about x, each with a translation.  They do not commute
\* and neither is its own inverse.
LcsRotZ == LocalCoordinateSystem(<<<<0, -1, 0>>, <<1, 0, 0>>, <<0, 0, 1>>>>, <<1, 0, 0>>)

LcsRotX == LocalCoordinateSystem(<<<<1, 0, 0>>, <<0, 0, -1>>, <<0, 1, 0>>>>, <<0, 2, 0>>)

\* An argument that is no LocalCoordinateSystem instance.
NotAnLcs == [cls |-> "ndarray", basis |-> eye, origin |-> <<0, 0, 0>>]

LcsArguments == {LcsRotZ, LcsRotX, NotAnLcs}

\* ------------------------------------------------------------- exceptions
NoException == [type |-> "None", msg |-> ""]

Raise(type, msg) == [type |-> type, msg |-> msg]

\* ------------------------------------------------------ networkx.DiGraph
\* A graph is a record of a node set and a set of edges; an edge carries the
\* attributes lcs and calculated.
EmptyGraph == [nodes |-> {}, edges |-> {}]

add_node(g, n) == [g EXCEPT !.nodes = @ \cup {n}]

has_edge(g, u, v) == \E e \in g.edges : e.u = u /\ e.v = v

\* graph.edges[u, v]
EdgeData(g, u, v) == CHOOSE e \in g.edges : e.u = u /\ e.v = v

\* add_edge as it would be if an edge added again were kept next to the old
\* one.
add_edge_keep_old(g, u, v, lcs, calculated) ==
    [nodes |-> g.nodes \cup {u, v},
     edges |-> g.edges
                  \cup {[u |-> u, v |-> v, lcs |-> lcs, calculated |-> calculated]}]

\* DiGraph.add_edge: adds missing end points; the attributes of an edge that
\* exists already are overwritten.
add_edge(g, u, v, lcs, calculated) ==
    [nodes |-> g.nodes \cup {u, v},
     edges |-> {e \in g.edges : ~(e.u = u /\ e.v = v)}
                  \cup {[u |-> u, v |-> v, lcs |-> lcs, calculated |-> calculated]}]

Successors(g, u) == {e.v : e \in {f \in g.edges : f.u = u}}

\* The nodes reached from the nodes of frontier, breadth first.
RECURSIVE Reachable(_, _, _)
Reachable(g, seen, frontier) ==
    IF frontier = {} THEN seen
    ELSE LET next == UNION {Successors(g, u) : u \in frontier} \ seen
         IN Reachable(g, seen \cup next, next)

\* Number of edges of a shortest path from the nodes of frontier to target,
\* -1 when there is none.
RECURSIVE Distance(_, _, _, _, _)
Distance(g, seen, frontier, target, d) ==
    IF target \in frontier THEN d
    ELSE IF frontier = {} THEN 0 - 1
    ELSE LET next == UNION {Successors(g, u) : u \in frontier} \ seen
         IN Distance(g, seen \cup next, next, target, d + 1)

\* All paths of exactly k edges from source to target.
RECURSIVE PathsOfLength(_, _, _, _)
PathsOfLength(g, source, target, k) ==
    IF k = 0 THEN (IF source = target THEN {<<source>>} ELSE {})
    ELSE UNION {{<<source>> \o p : p \in PathsOfLength(g, n, target, k - 1)} :
                   n \in Successors(g, source)}

\* nx.shortest_path(G, source, target): one of the paths with the fewest
\* edges; which one is left to the library.  The empty set stands for
\* NetworkXNoPath.
shortest_path(g, source, target) ==
    LET d == Distance(g, {source}, {source}, target, 0)
    IN IF d < 0 THEN {} ELSE PathsOfLength(g, source, target, d)

\* ------------------------------------------------ CoordinateSystemManager
\* What a call leaves behind: the graph after it, the exception it raised (or
\* NoException), the value it returned and the path it composed.
Outcome(g, exc, ret, path) == [graph |-> g, exc |-> exc, ret |-> ret, path |-> path]

\* CoordinateSystemManager.__init__
CoordinateSystemManager(name) == add_node(EmptyGraph, name)

\* _add_edges as it would be if the reverse edge got the LCS as it is.
_add_edges_reverse_not_inverted(g, node_from, node_to, lcs, calculated) ==
    add_edge(add_edge(g, node_from, node_to, lcs, calculated),
             node_to, node_from, lcs, calculated)

\* CoordinateSystemManager._add_edges
_add_edges(g, node_from, node_to, lcs, calculated) ==
    add_edge(add_edge(g, node_from, node_to, lcs, calculated),
             node_to, node_from, invert(lcs), calculated)

\* add_coordinate_system as it would be without the check of the parent:
\* add_edge then creates the parent.
add_coordinate_system_no_parent_check(g, name, parent_system_name, local_coordinate_system) ==
    IF local_coordinate_system.cls # "LocalCoordinateSystem"
    THEN Outcome(g, Raise("Exception", "'local_coordinate_system' must be an instance of weldx.transformations.LocalCoordinateSystem"),
                 NoneValue, <<>>)
    ELSE Outcome(_add_edges(add_node(g, name), name, parent_system_name,
                            local_coordinate_system, FALSE),
                 NoException, NoneValue, <<>>)

\* add_coordinate_system as it would be if the node were added before the
\* parent is checked.
add_coordinate_system_node_first(g, name, parent_system_name, local_coordinate_system) ==
    IF local_coordinate_system.cls # "LocalCoordinateSystem"
    THEN Outcome(g, Raise("Exception", "'local_coordinate_system' must be an instance of weldx.transformations.LocalCoordinateSystem"),
                 NoneValue, <<>>)
    ELSE IF parent_system_name \notin g.nodes
    THEN Outcome(add_node(g, name), Raise("Exception", "Invalid parent system"),
                 NoneValue, <<>>)
    ELSE Outcome(_add_edges(add_node(g, name), name, parent_system_name,
                            local_coordinate_system, FALSE),
                 NoException, NoneValue, <<>>)

\* CoordinateSystemManager.add_coordinate_system
add_coordinate_system(g, name, parent_system_name, local_coordinate_system) ==
    IF local_coordinate_system.cls # "LocalCoordinateSystem"
    THEN Outcome(g, Raise("Exception", "'local_coordinate_system' must be an instance of weldx.transformations.LocalCoordinateSystem"),
                 NoneValue, <<>>)
    ELSE IF parent_system_name \notin g.nodes
    THEN Outcome(g, Raise("Exception", "Invalid parent system"), NoneValue, <<>>)
    ELSE Outcome(_add_edges(add_node(g, name), name, parent_system_name,
                            local_coordinate_system, FALSE),
                 NoException, NoneValue, <<>>)

RECURSIVE ComposeAlong(_, _, _, _)

\* The loop as it would be with the operands of + exchanged.
ComposeAlong_operands_exchanged(g, path, i, lcs) ==
    IF i >= Len(path) - 1 THEN lcs
    ELSE ComposeAlong(g, path, i + 1,
                      LcsAdd(EdgeData(g, path[i + 1], path[i + 2]).lcs, lcs))

\* The loop of get_local_coordinate_system:
\*   for i in np.arange(1, length_path): lcs = lcs + edges[path[i], path[i + 1]]
\* (path[i] of the source is path[i + 1] here).
ComposeAlong(g, path, i, lcs) ==
    IF i >= Len(path) - 1 THEN lcs
    ELSE ComposeAlong(g, path, i + 1,
                      LcsAdd(lcs, EdgeData(g, path[i + 1], path[i + 2]).lcs))

\* The lookup along a path as it would be if the composed LCS were stored as
\* a defined edge pair.
GetAlongPath_stored_as_defined(g, path) ==
    IF Len(path) < 2
    THEN Outcome(g, Raise("IndexError", "list index out of range"), NoneValue, path)
    ELSE IF Len(path) - 1 > 1
    THEN Outcome(_add_edges(g, path[1], path[Len(path)],
                            ComposeAlong(g, path, 1, EdgeData(g, path[1], path[2]).lcs),
                            FALSE),
                 NoException,
                 ComposeAlong(g, path, 1, EdgeData(g, path[1], path[2]).lcs), path)
    ELSE Outcome(g, NoException, EdgeData(g, path[1], path[2]).lcs, path)

\* CoordinateSystemManager.get_local_coordinate_system, for the path that
\* nx.shortest_path returned.
GetAlongPath(g, path) ==
    IF Len(path) < 2
    THEN Outcome(g, Raise("IndexError", "list index out of range"), NoneValue, path)
    ELSE LET first == EdgeData(g, path[1], path[2]).lcs
             length_path == Len(path) - 1
         IN IF length_path > 1
            THEN LET lcs == ComposeAlong(g, path, 1, first)
                 IN Outcome(_add_edges(g, path[1], path[Len(path)], lcs, TRUE),
                            NoException, lcs, path)
            ELSE Outcome(g, NoException, first, path)

\* get_local_coordinate_system as it would be if a name that is no system
\* were answered with the identity.
get_local_coordinate_system_identity_for_unknown(g, cs_child, cs_parent) ==
    IF cs_child \notin g.nodes \/ cs_parent \notin g.nodes
    THEN {Outcome(g, NoException, IdentityLcs, <<>>)}
    ELSE IF shortest_path(g, cs_child, cs_parent) = {}
    THEN {Outcome(g, Raise("NetworkXNoPath", "No path"), NoneValue, <<>>)}
    ELSE {GetAlongPath(g, path) : path \in shortest_path(g, cs_child, cs_parent)}

\* CoordinateSystemManager.get_local_coordinate_system: the set of outcomes,
\* one for every path nx.shortest_path may return.
get_local_coordinate_system(g, cs_child, cs_parent) ==
    IF cs_child \notin g.nodes
    THEN {Outcome(g, Raise("Exception", "Invalid child system"), NoneValue, <<>>)}
    ELSE IF cs_parent \notin g.nodes
    THEN {Outcome(g, Raise("Exception", "Invalid parent system"), NoneValue, <<>>)}
    ELSE IF shortest_path(g, cs_child, cs_parent) = {}
    THEN {Outcome(g, Raise("NetworkXNoPath", "No path"), NoneValue, <<>>)}
    ELSE {GetAlongPath(g, path) : path \in shortest_path(g, cs_child, cs_parent)}

\* --------------------------------------- serialization of the manager
\* The manager the serialization is written for names its edge flag
\* "defined": set by add_cs on both edges it inserts, not set on the edges a
\* lookup caches.
defined(e) == ~e.calculated

\* node.name of the manager.
coordinate_system_manager_name == "csm"

\* The root_system_name of a tree whose graph has no node without outgoing
\* edge (None).
NoRootSystem == "<None>"

\* graph.remove_edges_from(remove_edges)
remove_edges_from(g, remove_edges) ==
    [nodes |-> g.nodes, edges |-> g.edges \ remove_edges]

out_degree(g, n) == Cardinality({e \in g.edges : e.u = n})

\* The exported graph as it would be if no edge were removed from it.
ExportedGraph_nothing_removed(g) ==
    remove_edges_from(g, {})

\* to_tree: the copy of the graph with the edges removed that are not
\* flagged as defined.
ExportedGraph(g) ==
    remove_edges_from(g, {e \in g.edges : ~defined(e)})

\* to_tree: the first node of the exported graph without outgoing edge.  The
\* model keeps no order of the nodes: each such node may be the first.
RootSystemNames(exported) ==
    IF \E n \in exported.nodes : out_degree(exported, n) = 0
    THEN {n \in exported.nodes : out_degree(exported, n) = 0}
    ELSE {NoRootSystem}

\* to_tree: one CoordinateTransformation per edge of the exported graph, its
\* transformation looked up in the manager; the outcomes of the lookups.
TransformationLookups(g, exported) ==
    UNION {{[name |-> e.u, reference_system |-> e.v, exc |-> out.exc,
             transformation |-> out.ret]
               : out \in get_local_coordinate_system(g, e.u, e.v)}
            : e \in exported.edges}

\* The tree of to_tree; a manager built by add_cs alone has no subsystems.
Tree(root_system_name, coordinate_systems) ==
    [cls |-> "dict",
     name |-> coordinate_system_manager_name,
     subsystems |-> <<>>,
     root_system_name |-> root_system_name,
     coordinate_systems |-> {[name |-> t.name,
                              reference_system |-> t.reference_system,
                              transformation |-> t.transformation]
                                : t \in coordinate_systems}]

\* LocalCoordinateSystemASDF.to_tree: the set of outcomes.  A lookup that
\* raises ends the export; the lookups are of direct edges and leave the
\* graph of the manager as it is.
to_tree(g) ==
    IF \E t \in TransformationLookups(g, ExportedGraph(g)) : t.exc # NoException
    THEN {Outcome(g, t.exc, NoneValue, <<>>)
            : t \in {u \in TransformationLookups(g, ExportedGraph(g)) :
                        u.exc # NoException}}
    ELSE {Outcome(g, NoException,
                  Tree(root, TransformationLookups(g, ExportedGraph(g))), <<>>)
            : root \in RootSystemNames(ExportedGraph(g))}

\* ------------------------------------------------------------------ state
VARIABLES
    graph,         \* self._graph of the manager
    graph_before,  \* self._graph as it was when the last call was made
    last_call,     \* the last call: its arguments and its outcome
    ncalls,        \* number of calls made so far
    graph_no_lookup,  \* the graph of a manager that gets the same
                      \* add_coordinate_system calls and no lookup
    lcs_hist,      \* a coordinate system and the results of the operations on it
    lcs_rhs,       \* the right-hand side operand of + and -
    lcs_ops,       \* the operations applied, lcs_ops[i] led to lcs_hist[i + 1]
    tree_root,     \* from_tree: tree["root_system_name"]
    tree_list,     \* from_tree: tree["coordinate_systems"]
    tree_subsystems, \* from_tree: tree["subsystems"]
    csm_graph,     \* from_tree: the graph of the manager csm
    pc,            \* from_tree: the statement it is at
    cs_index,      \* from_tree: position of the for loop in the list
    all_systems_included,  \* from_tree: the flag of the while loop
    pass_added,    \* from_tree: whether the present pass has added a system
    managers,      \* the managers that take part in merges, by name
    merged_into,   \* for each manager the name of the manager it was merged into
    exported,      \* the name of the manager whose subsystem data was extracted
    subsystem_data, \* the list _extract_subsystem_data returned for it
    xr_variables,  \* the data of the xarray variables, by identity
    lcs_objects,   \* the LocalCoordinateSystem instances: the variables that
                   \* hold the basis and the origin of each
    lcs_created,   \* the basis and the origin each instance was created with
    time_obj,      \* the Time instance made last
    time_call,     \* the last call on the Time class: arguments and outcome
    mc_nodes,      \* MeasurementChainGraph: the nodes of _graph with their attributes
    mc_edges,      \* MeasurementChainGraph: the edges of _graph
    mc_prev,       \* MeasurementChainGraph: _prev_added_signal
    mc_call,       \* the last call on the measurement chain and its exception
    free_symbols,  \* MathematicalExpression: _expression.free_symbols
    parameters,    \* MathematicalExpression: _parameters
    me_call        \* the last set_parameter call and its exception

csm_vars == <<graph, graph_before, last_call, ncalls, graph_no_lookup>>

lcs_vars == <<lcs_hist, lcs_rhs, lcs_ops>>

from_tree_vars ==
    <<tree_root, tree_list, tree_subsystems, csm_graph, pc, cs_index,
      all_systems_included, pass_added>>

subsystem_vars == <<managers, merged_into, exported, subsystem_data>>

object_vars == <<xr_variables, lcs_objects, lcs_created>>

\* The variables of the specifications of the manager and its serialization,
\* and those of the specifications of the other classes.
core_vars == <<csm_vars, lcs_vars, from_tree_vars, subsystem_vars>>

time_vars == <<time_obj, time_call>>

chain_vars == <<mc_nodes, mc_edges, mc_prev, mc_call>>

expression_vars == <<free_symbols, parameters, me_call>>

ext_vars == <<object_vars, time_vars, chain_vars, expression_vars>>

vars == <<core_vars, ext_vars>>

\* No coordinate system is being operated on.
LcsIdle == lcs_hist = <<>> /\ lcs_rhs = NoneValue /\ lcs_ops = <<>>

\* No tree is being imported.
FromTreeIdle ==
    /\ tree_root = ""
    /\ tree_list = <<>>
    /\ tree_subsystems = <<>>
    /\ csm_graph = EmptyGraph
    /\ pc = ""
    /\ cs_index = 0
    /\ all_systems_included = FALSE
    /\ pass_added = FALSE

\* No instance is looked at as an object.
ObjectsIdle == xr_variables = <<>> /\ lcs_objects = <<>> /\ lcs_created = <<>>

\* No Time instance was made.
TimeIdle == time_obj = NoneValue /\ time_call = [op |-> "None"]

\* No measurement chain was made.
ChainIdle ==
    /\ mc_nodes = {}
    /\ mc_edges = {}
    /\ mc_prev = ""
    /\ mc_call = [op |-> "None"]

\* No MathematicalExpression was made.
ExpressionIdle ==
    /\ free_symbols = {}
    /\ parameters = {}
    /\ me_call = [op |-> "None"]

\* None of the other classes is in use.
ExtIdle == ObjectsIdle /\ TimeIdle /\ ChainIdle /\ ExpressionIdle

\* No manager takes part in a merge.
SubsystemsIdle ==
    /\ managers = <<>>
    /\ merged_into = <<>>
    /\ exported = ""
    /\ subsystem_data = <<>>

Call(op, name, parent, lcs, out) ==
    [op |-> op, name |-> name, parent |-> parent, lcs |-> lcs,
     exc |-> out.exc, ret |-> out.ret, path |-> out.path]

Init ==
    /\ graph = CoordinateSystemManager(base_coordinate_system_name)
    /\ graph_before = EmptyGraph
    /\ last_call = Call("__init__", base_coordinate_system_name, "", NoneValue,
                        Outcome(graph, NoException, NoneValue, <<>>))
    /\ ncalls = 0
    /\ graph_no_lookup = CoordinateSystemManager(base_coordinate_system_name)
    /\ LcsIdle
    /\ FromTreeIdle
    /\ SubsystemsIdle
    /\ ExtIdle

\* The names a call is made with: the systems of the manager and one name
\* that is no system of it.  The names that are not in the graph are
\* interchangeable, so a call that names one names the first.
NameOrder == <<"a", "b", "c", "base">>

NameArguments(g) ==
    g.nodes \cup {NameOrder[i] : i \in {j \in 1..Len(NameOrder) :
                      /\ NameOrder[j] \notin g.nodes
                      /\ \A k \in 1..(j - 1) : NameOrder[k] \in g.nodes}}

\* A call of csm.add_coordinate_system(name, parent, lcs).
AddCoordinateSystem ==
    /\ ncalls < MaxCalls
    /\ \E name \in NameArguments(graph), parent \in NameArguments(graph),
          lcs \in LcsArguments :
          \E out \in {add_coordinate_system(graph, name, parent, lcs)} :
             /\ graph' = out.graph
             /\ last_call' = Call("add_coordinate_system", name, parent, lcs, out)
             /\ graph_no_lookup' =
                   add_coordinate_system(graph_no_lookup, name, parent, lcs).graph
    /\ graph_before' = graph
    /\ ncalls' = ncalls + 1
    /\ UNCHANGED <<lcs_vars, from_tree_vars, subsystem_vars, ext_vars>>

\* A call of csm.get_local_coordinate_system(cs_child, cs_parent).
GetLocalCoordinateSystem ==
    /\ ncalls < MaxCalls
    /\ \E cs_child \in NameArguments(graph), cs_parent \in NameArguments(graph) :
          \E out \in get_local_coordinate_system(graph, cs_child, cs_parent) :
             /\ graph' = out.graph
             /\ last_call' = Call("get_local_coordinate_system", cs_child, cs_parent,
                                  NoneValue, out)
    /\ graph_before' = graph
    /\ ncalls' = ncalls + 1
    /\ UNCHANGED <<graph_no_lookup, lcs_vars, from_tree_vars, subsystem_vars, ext_vars>>

\* A call of LocalCoordinateSystemASDF.to_tree(csm, ctx).  The export changes
\* nothing of the manager and is not counted as a call on it.
ToTree ==
    /\ \E out \in to_tree(graph) :
          /\ graph' = out.graph
          /\ last_call' = Call("to_tree", "", "", NoneValue, out)
    /\ graph_before' = graph
    /\ UNCHANGED <<ncalls, graph_no_lookup, lcs_vars, from_tree_vars, subsystem_vars, ext_vars>>

Next == AddCoordinateSystem \/ GetLocalCoordinateSystem \/ ToTree

Spec == Init /\ [][Next]_vars

\* ------------------------------------- operations on coordinate systems
\* The bases handed to LocalCoordinateSystem.__init__: the identity, quarter
\* turns about z and about x, their product, a reflection, and a basis whose
\* rows are not of length one (the constructor normalizes them).
LcsBases ==
    {eye,
     <<<<0, -1, 0>>, <<1, 0, 0>>, <<0, 0, 1>>>>,
     <<<<1, 0, 0>>, <<0, 0, -1>>, <<0, 1, 0>>>>,
     <<<<0, 0, 1>>, <<1, 0, 0>>, <<0, 1, 0>>>>,
     <<<<1, 0, 0>>, <<0, 1, 0>>, <<0, 0, -1>>>>,
     <<<<0, 0, -2>>, <<0, 3, 0>>, <<5, 0, 0>>>>}

LcsOrigins == {<<0, 0, 0>>, <<1, 0, 0>>, <<0, 2, -1>>}

\* The valid coordinate systems: what the constructor returns for them.
LcsValues == {LocalCoordinateSystem(b, o) : b \in LcsBases, o \in LcsOrigins}

CsmIdle ==
    /\ graph = EmptyGraph
    /\ graph_before = EmptyGraph
    /\ last_call = Call("", "", "", NoneValue,
                        Outcome(EmptyGraph, NoException, NoneValue, <<>>))
    /\ ncalls = 0
    /\ graph_no_lookup = EmptyGraph

\* None of the manager, the coordinate system values, from_tree and the
\* subsystems is in use.
CoreIdle == CsmIdle /\ LcsIdle /\ FromTreeIdle /\ SubsystemsIdle

InitLcs ==
    /\ \E lhs \in LcsValues : lcs_hist = <<lhs>>
    /\ lcs_rhs \in LcsValues
    /\ lcs_ops = <<>>
    /\ CsmIdle
    /\ FromTreeIdle
    /\ SubsystemsIdle
    /\ ExtIdle

\* lcs = lcs + rhs
LcsAddition ==
    /\ Len(lcs_ops) < MaxLcsOps
    /\ \E out \in {LcsAdd(lcs_hist[Len(lcs_hist)], lcs_rhs)} :
          lcs_hist' = Append(lcs_hist, out)
    /\ lcs_ops' = Append(lcs_ops, "__add__")
    /\ UNCHANGED <<lcs_rhs, csm_vars, from_tree_vars, subsystem_vars, ext_vars>>

\* lcs = lcs - rhs
LcsSubtraction ==
    /\ Len(lcs_ops) < MaxLcsOps
    /\ \E out \in {LcsSub(lcs_hist[Len(lcs_hist)], lcs_rhs)} :
          lcs_hist' = Append(lcs_hist, out)
    /\ lcs_ops' = Append(lcs_ops, "__sub__")
    /\ UNCHANGED <<lcs_rhs, csm_vars, from_tree_vars, subsystem_vars, ext_vars>>

\* lcs = lcs.invert()
LcsInversion ==
    /\ Len(lcs_ops) < MaxLcsOps
    /\ \E out \in {invert(lcs_hist[Len(lcs_hist)])} :
          lcs_hist' = Append(lcs_hist, out)
    /\ lcs_ops' = Append(lcs_ops, "invert")
    /\ UNCHANGED <<lcs_rhs, csm_vars, from_tree_vars, subsystem_vars, ext_vars>>

NextLcs == LcsAddition \/ LcsSubtraction \/ LcsInversion

SpecLcs == InitLcs /\ [][NextLcs]_vars

\* ------------------------------------------ deserialization of a manager
\* csm.has_coordinate_system(name)
has_coordinate_system(g, name) == name \in g.nodes

\* csm.add_cs(name, parent, lcs): the add_coordinate_system of the manager.
add_cs(g, name, parent, lcs) == add_coordinate_system(g, name, parent, lcs)

\* The names and the transformations of the records of a tree.  "x" is the
\* name of no record.
RecordNames == {"a", "b", base_coordinate_system_name}

RecordReferences == RecordNames \cup {"x"}

RecordTransformations == {LcsRotZ, invert(LcsRotZ)}

\* CoordinateTransformation(name, reference_system, transformation)
CoordinateTransformation ==
    [name : RecordNames, reference_system : RecordReferences,
     transformation : RecordTransformations]

\* The trees handed to from_tree: the root is the name of the root system or
\* None, the list holds up to MaxRecords records in any order.
InitFromTree ==
    /\ tree_root \in {base_coordinate_system_name, NoRootSystem}
    /\ tree_list \in UNION {[1..n -> CoordinateTransformation] : n \in 0..MaxRecords}
    /\ tree_subsystems = <<>>
    /\ csm_graph = EmptyGraph
    /\ pc = "call"
    /\ cs_index = 0
    /\ all_systems_included = FALSE
    /\ pass_added = FALSE
    /\ CsmIdle
    /\ LcsIdle
    /\ SubsystemsIdle
    /\ ExtIdle

\* The start of from_tree as it would be if the root systems of the
\* subsystems were made systems of the manager.
FromTreeCreate_subsystems_read ==
    /\ pc = "call"
    /\ csm_graph' = [CoordinateSystemManager(tree_root) EXCEPT
                        !.nodes = @ \cup {tree_subsystems[i].root_cs :
                                             i \in 1..Len(tree_subsystems)}]
    /\ all_systems_included' = FALSE
    /\ pc' = "while"
    /\ UNCHANGED <<tree_root, tree_list, tree_subsystems, cs_index, pass_added, csm_vars, lcs_vars, subsystem_vars, ext_vars>>

\* csm = CoordinateSystemManager(root_coordinate_system_name=...);
\* all_systems_included = False
FromTreeCreate ==
    /\ pc = "call"
    /\ csm_graph' = CoordinateSystemManager(tree_root)
    /\ all_systems_included' = FALSE
    /\ pc' = "while"
    /\ UNCHANGED <<tree_root, tree_list, tree_subsystems, cs_index, pass_added, csm_vars, lcs_vars, subsystem_vars, ext_vars>>

\* while not all_systems_included: all_systems_included = True; for ...
FromTreePass ==
    /\ pc = "while"
    /\ ~all_systems_included
    /\ all_systems_included' = TRUE
    /\ cs_index' = 1
    /\ pass_added' = FALSE
    /\ pc' = "for"
    /\ UNCHANGED <<tree_root, tree_list, tree_subsystems, csm_graph, csm_vars, lcs_vars, subsystem_vars, ext_vars>>

\* The body of the for loop for a record whose name is a system already.
FromTreeSkip ==
    /\ pc = "for"
    /\ cs_index <= Len(tree_list)
    /\ has_coordinate_system(csm_graph, tree_list[cs_index].name)
    /\ cs_index' = cs_index + 1
    /\ UNCHANGED <<tree_root, tree_list, tree_subsystems, csm_graph, pc, all_systems_included,
                   pass_added, csm_vars, lcs_vars, subsystem_vars, ext_vars>>

\* The body of the for loop for a record whose name is no system and whose
\* reference system is one: csm.add_cs(...); an exception of add_cs ends
\* from_tree.
FromTreeAdd ==
    /\ pc = "for"
    /\ cs_index <= Len(tree_list)
    /\ ~has_coordinate_system(csm_graph, tree_list[cs_index].name)
    /\ has_coordinate_system(csm_graph, tree_list[cs_index].reference_system)
    /\ \E out \in {add_cs(csm_graph, tree_list[cs_index].name,
                          tree_list[cs_index].reference_system,
                          tree_list[cs_index].transformation)} :
          /\ csm_graph' = out.graph
          /\ pc' = IF out.exc = NoException THEN "for" ELSE "raised"
          /\ pass_added' = (out.exc = NoException)
    /\ cs_index' = cs_index + 1
    /\ UNCHANGED <<tree_root, tree_list, tree_subsystems, all_systems_included, csm_vars, lcs_vars, subsystem_vars, ext_vars>>

\* The body of the for loop as it would be if a record that cannot be added
\* yet did not set the flag of the while loop.
FromTreeDefer_flag_kept ==
    /\ pc = "for"
    /\ cs_index <= Len(tree_list)
    /\ ~has_coordinate_system(csm_graph, tree_list[cs_index].name)
    /\ ~has_coordinate_system(csm_graph, tree_list[cs_index].reference_system)
    /\ cs_index' = cs_index + 1
    /\ UNCHANGED <<tree_root, tree_list, tree_subsystems, csm_graph, pc, all_systems_included,
                   pass_added, csm_vars, lcs_vars, subsystem_vars, ext_vars>>

\* The body of the for loop for a record whose name and whose reference
\* system are no systems: all_systems_included = False
FromTreeDefer ==
    /\ pc = "for"
    /\ cs_index <= Len(tree_list)
    /\ ~has_coordinate_system(csm_graph, tree_list[cs_index].name)
    /\ ~has_coordinate_system(csm_graph, tree_list[cs_index].reference_system)
    /\ all_systems_included' = FALSE
    /\ cs_index' = cs_index + 1
    /\ UNCHANGED <<tree_root, tree_list, tree_subsystems, csm_graph, pc, pass_added, csm_vars, lcs_vars, subsystem_vars, ext_vars>>

\* The for loop is through the list.
FromTreeEndPass ==
    /\ pc = "for"
    /\ cs_index > Len(tree_list)
    /\ pc' = "while"
    /\ UNCHANGED <<tree_root, tree_list, tree_subsystems, csm_graph, cs_index, all_systems_included,
                   pass_added, csm_vars, lcs_vars, subsystem_vars, ext_vars>>

\* The while loop ends: return csm
FromTreeReturn ==
    /\ pc = "while"
    /\ all_systems_included
    /\ pc' = "done"
    /\ UNCHANGED <<tree_root, tree_list, tree_subsystems, csm_graph, cs_index, all_systems_included,
                   pass_added, csm_vars, lcs_vars, subsystem_vars, ext_vars>>

NextFromTree ==
    \/ FromTreeCreate
    \/ FromTreePass
    \/ FromTreeSkip
    \/ FromTreeAdd
    \/ FromTreeDefer
    \/ FromTreeEndPass
    \/ FromTreeReturn

\* from_tree is one synchronous call: it takes its next step as long as it
\* has one.
SpecFromTree == InitFromTree /\ [][NextFromTree]_vars /\ WF_vars(NextFromTree)

\* The subsystem data of a tree, as _extract_subsystem_data writes them: none,
\* a subsystem of systems that the records name, or one of other systems.
TreeSubsystems ==
    {<<>>,
     <<[name |-> "sub", root_cs |-> "a", parent_system |-> base_coordinate_system_name,
        members |-> {"a", "b"}]>>,
     <<[name |-> "sub", root_cs |-> "c", parent_system |-> "a",
        members |-> {"c"}]>>}

\* The trees with subsystem data handed to from_tree; the records carry one
\* transformation.
InitFromTreeSubsystems ==
    /\ tree_root \in {base_coordinate_system_name, NoRootSystem}
    /\ tree_list \in UNION {[1..n -> {r \in CoordinateTransformation :
                                        r.transformation = LcsRotZ}] :
                             n \in 0..MaxRecords}
    /\ tree_subsystems \in TreeSubsystems
    /\ csm_graph = EmptyGraph
    /\ pc = "call"
    /\ cs_index = 0
    /\ all_systems_included = FALSE
    /\ pass_added = FALSE
    /\ CsmIdle
    /\ LcsIdle
    /\ SubsystemsIdle
    /\ ExtIdle

SpecFromTreeSubsystems ==
    InitFromTreeSubsystems /\ [][NextFromTree]_vars /\ WF_vars(NextFromTree)

\* ------------------------------------------- subsystems of a manager
\* The managers that are merged: each has a name, a root system and systems
\* of its own.  The root of a manager that is merged into another is the
\* junction, a system of both.
ManagerNames == {"m0", "m1", "m2", "m3", "m4"}

ManagerRoot ==
    [m \in ManagerNames |->
        CASE m = "m0" -> "r" [] m = "m1" -> "a" [] m = "m2" -> "b"
          [] m = "m3" -> "c" [] m = "m4" -> "c"]

ManagerSystems ==
    [m \in ManagerNames |->
        CASE m = "m0" -> {"r", "a", "b"} [] m = "m1" -> {"a", "c"}
          [] m = "m2" -> {"b", "d"} [] m = "m3" -> {"c", "e"}
          [] m = "m4" -> {"c", "f"}]

\* csm.number_of_subsystems
number_of_subsystems(h, csm) == Len(h[csm].subsystems)

\* csm.root_system_name
root_system_name(h, csm) == h[csm].root

RECURSIVE get_coordinate_system_names(_, _)

\* csm.get_coordinate_system_names(): the systems of the manager and of the
\* subsystems merged into it.
get_coordinate_system_names(h, csm) ==
    h[csm].systems
       \cup UNION {get_coordinate_system_names(h, h[csm].subsystems[i]) :
                     i \in 1..Len(h[csm].subsystems)}

\* csm.merge(other): other becomes a subsystem of csm, with the subsystems it
\* has itself.  The root of other is a system of csm and no other system of
\* other is.
merge(h, csm, other) ==
    [h EXCEPT ![csm].subsystems = Append(@, other)]

\* csm.unmerge(): the manager loses its subsystems, which are returned as
\* managers with the subsystems they have themselves.
unmerge(h, csm) ==
    [heap |-> [h EXCEPT ![csm].subsystems = <<>>], ret |-> h[csm].subsystems]

RECURSIVE _extract_all_subsystems(_, _)

RECURSIVE ExtractLoop(_, _, _)

\* The for loop of _extract_all_subsystems; += appends to the list the loop
\* runs over, so the loop comes to the appended subsystems too.
ExtractLoop(h, subsystems, i) ==
    IF i > Len(subsystems) THEN [heap |-> h, ret |-> subsystems]
    ELSE IF number_of_subsystems(h, subsystems[i][1]) > 0
    THEN ExtractLoop(_extract_all_subsystems(h, subsystems[i][1]).heap,
                     subsystems \o _extract_all_subsystems(h, subsystems[i][1]).ret,
                     i + 1)
    ELSE ExtractLoop(h, subsystems, i + 1)

\* _extract_all_subsystems as it would be without the recursive call.
_extract_all_subsystems_direct_only(h, csm) ==
    [heap |-> unmerge(h, csm).heap,
     ret |-> [i \in 1..Len(unmerge(h, csm).ret) |-> <<unmerge(h, csm).ret[i], csm>>]]

\* LocalCoordinateSystemASDF._extract_all_subsystems on the managers h (the
\* copy made by the first call): the managers as the calls leave them and
\* the list of (subsystem, name of its parent).
_extract_all_subsystems(h, csm) ==
    ExtractLoop(unmerge(h, csm).heap,
                [i \in 1..Len(unmerge(h, csm).ret) |-> <<unmerge(h, csm).ret[i], csm>>],
                1)

\* LocalCoordinateSystemASDF._extract_subsystem_data
_extract_subsystem_data(h, csm) ==
    [i \in 1..Len(_extract_all_subsystems(h, csm).ret) |->
        [name |-> _extract_all_subsystems(h, csm).ret[i][1],
         root_cs |-> root_system_name(_extract_all_subsystems(h, csm).heap,
                                      _extract_all_subsystems(h, csm).ret[i][1]),
         parent_system |-> _extract_all_subsystems(h, csm).ret[i][2],
         members |-> get_coordinate_system_names(
                        _extract_all_subsystems(h, csm).heap,
                        _extract_all_subsystems(h, csm).ret[i][1])]]

InitSubsystems ==
    /\ managers = [m \in ManagerNames |->
                      [root |-> ManagerRoot[m], systems |-> ManagerSystems[m],
                       subsystems |-> <<>>]]
    /\ merged_into = [m \in ManagerNames |-> ""]
    /\ exported = ""
    /\ subsystem_data = <<>>
    /\ CsmIdle
    /\ LcsIdle
    /\ FromTreeIdle
    /\ ExtIdle

\* A call of csm.merge(other) for two managers that are subsystems of none.
MergeSubsystem ==
    /\ \E csm \in ManagerNames, other \in ManagerNames :
          /\ csm # other
          /\ merged_into[csm] = ""
          /\ merged_into[other] = ""
          /\ ManagerRoot[other] \in get_coordinate_system_names(managers, csm)
          /\ get_coordinate_system_names(managers, other)
                \cap get_coordinate_system_names(managers, csm)
                = {ManagerRoot[other]}
          /\ managers' = merge(managers, csm, other)
          /\ merged_into' = [merged_into EXCEPT ![other] = csm]
    /\ exported' = ""
    /\ subsystem_data' = <<>>
    /\ UNCHANGED <<csm_vars, lcs_vars, from_tree_vars, ext_vars>>

\* to_tree: subsystems = cls._extract_subsystem_data(node).  The extraction
\* works on a copy; the manager stays as it is.
ExtractSubsystemData ==
    /\ \E csm \in ManagerNames :
          /\ merged_into[csm] = ""
          /\ exported' = csm
          /\ subsystem_data' = _extract_subsystem_data(managers, csm)
    /\ UNCHANGED <<managers, merged_into, csm_vars, lcs_vars, from_tree_vars, ext_vars>>

NextSubsystems == MergeSubsystem \/ ExtractSubsystemData

SpecSubsystems == InitSubsystems /\ [][NextSubsystems]_vars

\* --------------------------------- coordinate systems as objects (xarray)
\* A LocalCoordinateSystem instance holds a Dataset with the variables basis
\* and origin.  xr_variables holds the data of every variable object; an
\* instance names its two variables.  No operation writes into a numpy
\* buffer, so the buffers two variables share are left out.

\* Dataset.copy(deep=False) as it would be if it returned the Dataset
\* itself: the variables of the copy are those of the instance.
DatasetCopy_same_variables(h, self) == [heap |-> h, ds |-> self]

\* self._xarray.copy(deep=False): a new Dataset with new variable objects
\* that hold the same data.
DatasetCopy(h, self) ==
    [heap |-> h \o <<h[self.basis], h[self.origin]>>,
     ds |-> [basis |-> Len(h) + 1, origin |-> Len(h) + 2]]

\* ut.transpose_xarray_axis_data(da, "c", "v"): da.data = da.transpose(*i).data
\* assigns to the variable the DataArray wraps.
TransposeInPlace(h, da) == [h EXCEPT ![da] = transpose_xarray_axis_data(@)]

\* The instance LocalCoordinateSystem(basis, origin) makes, added to the
\* variables kept from before: apply_ufunc(normalize, ...) returns a new
\* variable for the basis.
NewInstance(h, kept, basis, origin) ==
    [heap |-> SubSeq(h, 1, kept)
                 \o <<LocalCoordinateSystem(basis, origin).basis,
                      LocalCoordinateSystem(basis, origin).origin>>,
     ret |-> [basis |-> kept + 1, origin |-> kept + 2]]

\* invert, from the copy on: the basis variable of the copy is transposed in
\* place, ds["origin"] becomes the new variable apply_ufunc returns.
InvertCopy(h, kept, ds) ==
    NewInstance(TransposeInPlace(h, ds.basis), kept,
                TransposeInPlace(h, ds.basis)[ds.basis],
                mat_vec_mul(TransposeInPlace(h, ds.basis)[ds.basis],
                            VecNeg(TransposeInPlace(h, ds.basis)[ds.origin])))

\* LocalCoordinateSystem.invert on the instance self.
ObjectInvert(h, self) ==
    InvertCopy(DatasetCopy(h, self).heap, Len(h), DatasetCopy(h, self).ds)

\* LocalCoordinateSystem.__add__: xr_matmul and xr_matvecmul return new
\* variables.
ObjectAdd(h, self, rhs_cs) ==
    NewInstance(h, Len(h), matmul(h[rhs_cs.basis], h[self.basis]),
                VecAdd(mat_vec_mul(h[rhs_cs.basis], h[self.origin]),
                       h[rhs_cs.origin]))

\* LocalCoordinateSystem.__sub__
ObjectSub(h, self, rhs_cs) ==
    NewInstance(h, Len(h),
                matmul(transpose_xarray_axis_data(h[rhs_cs.basis]), h[self.basis]),
                mat_vec_mul(transpose_xarray_axis_data(h[rhs_cs.basis]),
                            VecAdd(h[self.origin], VecNeg(h[rhs_cs.origin]))))

\* The coordinate systems the instances start from.
ObjectValues == {LcsRotZ, LcsRotX, IdentityLcs,
                 LocalCoordinateSystem(<<<<0, 0, 1>>, <<1, 0, 0>>, <<0, 1, 0>>>>,
                                       <<0, 2, -1>>)}

\* What an instance holds now.
ValueOf(h, obj) == [basis |-> h[obj.basis], origin |-> h[obj.origin]]

\* Two instances A and B.
InitObjects ==
    /\ \E a \in ObjectValues, b \in ObjectValues :
          /\ xr_variables = <<a.basis, a.origin, b.basis, b.origin>>
          /\ lcs_created = <<[basis |-> a.basis, origin |-> a.origin],
                             [basis |-> b.basis, origin |-> b.origin]>>
    /\ lcs_objects = <<[basis |-> 1, origin |-> 2], [basis |-> 3, origin |-> 4]>>
    /\ CoreIdle
    /\ TimeIdle
    /\ ChainIdle
    /\ ExpressionIdle

\* The instance an operation returned joins the instances.
Returned(out) ==
    /\ xr_variables' = out.heap
    /\ lcs_objects' = Append(lcs_objects, out.ret)
    /\ lcs_created' = Append(lcs_created, ValueOf(out.heap, out.ret))
    /\ UNCHANGED <<core_vars, time_vars, chain_vars, expression_vars>>

\* c = a + b (the lookup of the manager composes the LCS of its edges so)
ObjectAddition ==
    /\ Len(lcs_objects) < MaxInstances
    /\ \E a \in 1..Len(lcs_objects), b \in 1..Len(lcs_objects) :
          \E out \in {ObjectAdd(xr_variables, lcs_objects[a], lcs_objects[b])} :
             Returned(out)

\* c = a - b
ObjectSubtraction ==
    /\ Len(lcs_objects) < MaxInstances
    /\ \E a \in 1..Len(lcs_objects), b \in 1..Len(lcs_objects) :
          \E out \in {ObjectSub(xr_variables, lcs_objects[a], lcs_objects[b])} :
             Returned(out)

\* c = a.invert() (_add_edges of the manager stores lcs.invert() so)
ObjectInversion ==
    /\ Len(lcs_objects) < MaxInstances
    /\ \E a \in 1..Len(lcs_objects) :
          \E out \in {ObjectInvert(xr_variables, lcs_objects[a])} :
             Returned(out)

NextObjects == ObjectAddition \/ ObjectSubtraction \/ ObjectInversion

SpecObjects == InitObjects /\ [][NextObjects]_vars

\* -------------------------------------------------------------- Time
\* The pandas object a Time holds: a scalar pd.Timedelta or pd.Timestamp
\* (one value) or a pd.TimedeltaIndex or pd.DatetimeIndex.  Values are whole
\* seconds; a reference time is <<>> (None) or <<seconds>> (a pd.Timestamp).
PandasTime(kind, values) == [kind |-> kind, values |-> values]

NoTimeRef == <<>>

IsIndex(time) == time.kind \in {"TimedeltaIndex", "DatetimeIndex"}

IsRelative(time) == time.kind \in {"Timedelta", "TimedeltaIndex"}

\* pd.Index.is_monotonic_increasing: equal neighbours are allowed.
is_monotonic_increasing(values) ==
    \A i \in 1..(Len(values) - 1) : values[i] <= values[i + 1]

\* Seconds of one unit of a pint.Quantity: time.to("s").magnitude
SecondsPerMinute == 60

\* Time._convert_quantity
_convert_quantity(time) ==
    PandasTime("TimedeltaIndex",
               [i \in 1..Len(time.values) |->
                   IF time.unit = "min" THEN time.values[i] * SecondsPerMinute
                   ELSE time.values[i]])

\* Time._convert_other for a list of strings or an array: pd.Index(time)
\* is a DatetimeIndex for dates and a TimedeltaIndex for durations.
_convert_other(time) ==
    PandasTime(IF time.form = "datetime" THEN "DatetimeIndex" ELSE "TimedeltaIndex",
               time.values)

\* Time.__init__ up to the sanity check: the pandas object of the input,
\* with a scalar for an index of one value.
ConvertedTime(time) ==
    IF time.type = "Time" THEN time.obj.time
    ELSE IF time.type \in {"Timedelta", "Timestamp"}
    THEN PandasTime(time.type, time.values)
    ELSE IF Len(time.values) = 1
    THEN PandasTime(IF (time.type \in {"list", "ndarray"} /\ time.form = "datetime")
                       \/ time.type = "DatetimeIndex"
                    THEN "Timestamp" ELSE "Timedelta",
                    IF time.type = "Quantity" THEN _convert_quantity(time).values
                    ELSE time.values)
    ELSE IF time.type \in {"TimedeltaIndex", "DatetimeIndex"}
    THEN PandasTime(time.type, time.values)
    ELSE IF time.type = "Quantity" THEN _convert_quantity(time)
    ELSE _convert_other(time)

\* time + time_ref for a pd.Timedelta or a pd.TimedeltaIndex and a reference
\* time that is not None.
AddReference(time, time_ref) ==
    IF time_ref # NoTimeRef /\ IsRelative(time)
    THEN PandasTime(IF time.kind = "Timedelta" THEN "Timestamp" ELSE "DatetimeIndex",
                    [i \in 1..Len(time.values) |-> time.values[i] + time_ref[1]])
    ELSE time

\* The reference time __init__ goes on with.
GivenReference(time, time_ref) ==
    IF time.type = "Time" /\ time_ref = NoTimeRef THEN time.obj.time_ref
    ELSE time_ref

\* Time.__init__ as it would be without the check of the order.
Time_order_not_checked(time, time_ref) ==
    [exc |-> NoException,
     ret |-> [cls |-> "Time",
              time |-> AddReference(ConvertedTime(time), GivenReference(time, time_ref)),
              time_ref |-> GivenReference(time, time_ref)]]

\* Time.__init__
Time(time, time_ref) ==
    IF /\ IsIndex(AddReference(ConvertedTime(time), GivenReference(time, time_ref)))
       /\ ~is_monotonic_increasing(
              AddReference(ConvertedTime(time), GivenReference(time, time_ref)).values)
    THEN [exc |-> Raise("ValueError",
                        "The time values passed are not monotonic increasing."),
          ret |-> NoneValue]
    ELSE [exc |-> NoException,
          ret |-> [cls |-> "Time",
                   time |-> AddReference(ConvertedTime(time),
                                         GivenReference(time, time_ref)),
                   time_ref |-> GivenReference(time, time_ref)]]

\* Time.is_absolute
is_absolute(self) == self.time.kind \in {"Timestamp", "DatetimeIndex"}

\* Time.reference_time: of an absolute time the reference time it was given
\* or else its first value, of a relative time None.
reference_time(self) ==
    IF is_absolute(self)
    THEN (IF self.time_ref # NoTimeRef THEN self.time_ref ELSE <<self.time.values[1]>>)
    ELSE NoTimeRef

\* Time.as_pandas_index: an index also for a scalar.
as_pandas_index(self) ==
    PandasTime(IF is_absolute(self) THEN "DatetimeIndex" ELSE "TimedeltaIndex",
               self.time.values)

\* The Time object handed to a function as an argument.
AsInput(self) == [type |-> "Time", obj |-> self]

\* A pandas index handed to Time as an argument.
IndexInput(index) == [type |-> index.kind, values |-> index.values]

\* Number of occurrences of v in a sequence.
Count(values, v) == Cardinality({i \in 1..Len(values) : values[i] = v})

Elements(values) == {values[i] : i \in 1..Len(values)}

Max2(a, b) == IF a >= b THEN a ELSE b

RECURSIVE Repeat(_, _)
Repeat(v, n) == IF n = 0 THEN <<>> ELSE <<v>> \o Repeat(v, n - 1)

\* The values of vs in increasing order, each as often as it occurs in x or
\* in y, whichever is more.
RECURSIVE MergeSorted(_, _, _)
MergeSorted(vs, x, y) ==
    IF vs = {} THEN <<>>
    ELSE LET m == CHOOSE v \in vs : \A w \in vs : v <= w
         IN Repeat(m, Max2(Count(x, m), Count(y, m))) \o MergeSorted(vs \ {m}, x, y)

\* pd.Index.union of two indexes of one kind, both increasing: an index
\* equal to the other one, or the only one that is not empty, is returned
\* as it is; otherwise the values are merged, a value that is repeated
\* within one index as often as there.
IndexUnion(x, y) ==
    IF x.values = y.values \/ y.values = <<>> THEN x
    ELSE IF x.values = <<>> THEN y
    ELSE PandasTime(x.kind,
                    MergeSorted(Elements(x.values) \cup Elements(y.values),
                                x.values, y.values))

\* functools.reduce(lambda x, y: x.union(y), indexes): a single index is
\* returned untouched.
RECURSIVE ReduceUnion(_)
ReduceUnion(indexes) ==
    IF Len(indexes) = 1 THEN indexes[1]
    ELSE IndexUnion(ReduceUnion(SubSeq(indexes, 1, Len(indexes) - 1)),
                    indexes[Len(indexes)])

\* Time.union
union(times) ==
    IF \E i \in 1..Len(times) : Time(times[i], NoTimeRef).exc # NoException
    THEN [exc |-> Time(times[CHOOSE i \in 1..Len(times) :
                                 /\ Time(times[i], NoTimeRef).exc # NoException
                                 /\ \A j \in 1..(i - 1) :
                                        Time(times[j], NoTimeRef).exc = NoException],
                       NoTimeRef).exc,
          ret |-> NoneValue]
    ELSE Time(IndexInput(ReduceUnion(
                  [i \in 1..Len(times) |->
                      as_pandas_index(Time(times[i], NoTimeRef).ret)])),
              NoTimeRef)

\* The == of pandas between two time objects: element by element, a scalar
\* against every element; a duration never equals a date; two indexes of
\* different lengths raise.
PandasEq(a, b) ==
    IF IsIndex(a) /\ IsIndex(b) /\ Len(a.values) # Len(b.values)
    THEN [exc |-> Raise("ValueError", "Lengths must match"), ret |-> <<>>]
    ELSE [exc |-> NoException,
          ret |-> [i \in 1..Max2(Len(a.values), Len(b.values)) |->
                      /\ IsRelative(a) = IsRelative(b)
                      /\ a.values[IF IsIndex(a) THEN i ELSE 1]
                         = b.values[IF IsIndex(b) THEN i ELSE 1]]]

\* Time.__eq__: self._time == Time(other).as_pandas()
Time__eq__(self, other) == PandasEq(self.time, Time(AsInput(other), NoTimeRef).ret.time)

\* Time.equals
equals(self, other) ==
    IF PandasEq(self.time, other.time).exc # NoException
    THEN [exc |-> PandasEq(self.time, other.time).exc, ret |-> FALSE]
    ELSE [exc |-> NoException,
          ret |-> /\ \A i \in DOMAIN PandasEq(self.time, other.time).ret :
                         PandasEq(self.time, other.time).ret[i]
                  /\ self.time_ref = other.time_ref]

\* self._time - other.as_pandas() (swapped: other.as_pandas() - self._time)
\* of pandas for a scalar duration: a date cannot be taken from a duration.
PandasSub(a, b) ==
    IF IsRelative(a) /\ ~IsRelative(b)
    THEN [exc |-> Raise("TypeError", "unsupported operand type(s) for -"),
          ret |-> NoneValue]
    ELSE [exc |-> NoException,
          ret |-> PandasTime(IF IsIndex(a) THEN a.kind
                             ELSE IF IsIndex(b)
                             THEN (IF IsRelative(a) THEN "TimedeltaIndex"
                                   ELSE "DatetimeIndex")
                             ELSE a.kind,
                             [i \in 1..Max2(Len(a.values), Len(b.values)) |->
                                 a.values[IF IsIndex(a) THEN i ELSE 1]
                                 - b.values[IF IsIndex(b) THEN i ELSE 1]])]

\* The tail of __sub__ and __rsub__: Time(<difference>, time_ref)
TimeOfDifference(diff, self, other) ==
    IF diff.exc # NoException THEN diff
    ELSE Time(IF IsIndex(diff.ret)
              THEN IndexInput(diff.ret)
              ELSE [type |-> diff.ret.kind, values |-> diff.ret.values],
              IF is_absolute(self) THEN reference_time(self) ELSE reference_time(other))

\* Time.__sub__ with a scalar duration
Time__sub__(self, other) ==
    TimeOfDifference(PandasSub(self.time, Time(other, NoTimeRef).ret.time),
                     self, Time(other, NoTimeRef).ret)

\* Time.__rsub__ with a scalar duration
Time__rsub__(self, other) ==
    TimeOfDifference(PandasSub(Time(other, NoTimeRef).ret.time, self.time),
                     self, Time(other, NoTimeRef).ret)

\* Values of a time axis, in seconds, and the reference times.
TimeValues == 0..2

TimeSequences == UNION {[1..n -> TimeValues] : n \in 1..MaxTimeLen}

TimeRefs == {NoTimeRef, <<10>>, <<20>>}

\* The supported inputs of Time (types_time_like): pandas indexes, lists of
\* strings and numpy arrays of durations or dates, quantities in seconds or
\* minutes, and the pandas scalars.
TimeInputs ==
    {[type |-> t, values |-> v] :
        t \in {"TimedeltaIndex", "DatetimeIndex"}, v \in TimeSequences}
    \cup {[type |-> t, form |-> f, values |-> v] :
        t \in {"list", "ndarray"}, f \in {"timedelta", "datetime"}, v \in TimeSequences}
    \cup {[type |-> "Quantity", unit |-> u, values |-> v] :
        u \in {"s", "min"}, v \in TimeSequences}
    \cup {[type |-> t, values |-> <<v>>] :
        t \in {"Timedelta", "Timestamp"}, v \in TimeValues}

\* The lists of axes handed to Time.union: indexes of one kind.
AxesLists ==
    UNION {[1..n -> {[type |-> kind, values |-> v] : v \in TimeSequences}] :
              n \in 1..MaxAxes, kind \in {"TimedeltaIndex", "DatetimeIndex"}}

InitTime ==
    /\ TimeIdle
    /\ CoreIdle
    /\ ObjectsIdle
    /\ ChainIdle
    /\ ExpressionIdle

\* The call made and its outcome; the instance made last, None after a call
\* that raised.
TimeCalled(op, args, refs, out, made) ==
    /\ time_call' = [op |-> op, args |-> args, refs |-> refs,
                     exc |-> out.exc, ret |-> out.ret]
    /\ time_obj' = made
    /\ UNCHANGED <<core_vars, object_vars, chain_vars, expression_vars>>

\* Time(time, time_ref) for an input that is no Time.  The calls that read
\* no instance are the first call of a run.
TimeInit ==
    /\ time_call.op = "None"
    /\ \E time \in TimeInputs, time_ref \in TimeRefs :
        \E out \in {Time(time, time_ref)} :
            TimeCalled("__init__", <<time>>, <<time_ref>>, out, out.ret)

\* Time(time_obj, time_ref)
TimeFromTime ==
    /\ time_obj.cls = "Time"
    /\ \E time_ref \in TimeRefs :
        \E out \in {Time(AsInput(time_obj), time_ref)} :
            TimeCalled("__init__", <<AsInput(time_obj)>>, <<time_ref>>, out, out.ret)

\* time_obj - other and other - time_obj for a scalar duration, on an
\* instance that a constructor call made.
TimeSubtraction ==
    /\ time_obj.cls = "Time"
    /\ time_call.op = "__init__"
    /\ time_call.args[1].type # "Time"
    /\ \E v \in TimeValues :
        \E out \in {Time__sub__(time_obj, [type |-> "Timedelta", values |-> <<v>>])} :
            TimeCalled("__sub__", <<AsInput(time_obj),
                                    [type |-> "Timedelta", values |-> <<v>>]>>,
                       <<>>, out, out.ret)

TimeReverseSubtraction ==
    /\ time_obj.cls = "Time"
    /\ time_call.op = "__init__"
    /\ time_call.args[1].type # "Time"
    /\ \E v \in TimeValues :
        \E out \in {Time__rsub__(time_obj, [type |-> "Timedelta", values |-> <<v>>])} :
            TimeCalled("__rsub__", <<AsInput(time_obj),
                                     [type |-> "Timedelta", values |-> <<v>>]>>,
                       <<>>, out, out.ret)

\* Time.union(times)
TimeUnion ==
    /\ time_call.op = "None"
    /\ \E times \in AxesLists :
        \E out \in {union(times)} :
            TimeCalled("union", times, <<>>, out, out.ret)

\* The two instances Time(v1, r1) and Time(v2, r2) of one kind and length
\* that the comparisons are made on.
ComparedPairs ==
    {<<Time(a, r1).ret, Time(b, r2).ret, a, b, r1, r2>> :
        <<a, b>> \in UNION {{[type |-> kind, values |-> v] : v \in [1..n -> TimeValues]}
                            \X {[type |-> kind, values |-> v] : v \in [1..n -> TimeValues]} :
                            n \in 1..MaxTimeLen, kind \in {"TimedeltaIndex", "DatetimeIndex"}},
        r1 \in TimeRefs, r2 \in TimeRefs}

\* Time(v1, r1) == Time(v2, r2)
TimeEq ==
    /\ time_call.op = "None"
    /\ \E pair \in ComparedPairs :
        /\ pair[1].cls = "Time"
        /\ pair[2].cls = "Time"
        /\ \E out \in {Time__eq__(pair[1], pair[2])} :
            TimeCalled("__eq__", <<pair[3], pair[4]>>, <<pair[5], pair[6]>>,
                       out, pair[2])

\* Time(v1, r1).equals(Time(v2, r2))
TimeEquals ==
    /\ time_call.op = "None"
    /\ \E pair \in ComparedPairs :
        /\ pair[1].cls = "Time"
        /\ pair[2].cls = "Time"
        /\ \E out \in {equals(pair[1], pair[2])} :
            TimeCalled("equals", <<pair[3], pair[4]>>, <<pair[5], pair[6]>>,
                       out, pair[2])

NextTime ==
    \/ TimeInit
    \/ TimeFromTime
    \/ TimeSubtraction
    \/ TimeReverseSubtraction
    \/ TimeUnion
    \/ TimeEq
    \/ TimeEquals

SpecTime == InitTime /\ [][NextTime]_vars

\* ------------------------------------------------- MeasurementChainGraph
\* A chain is its graph and _prev_added_signal.  A node is a record of its
\* id and its attributes; data_name is NoDataName as long as the node has no
\* such key.  The attributes error and func of an edge and the data of a
\* node are stored as they are passed and never read by the methods below.
MeasurementChain(nodes, edges, prev) == [nodes |-> nodes, edges |-> edges, prev |-> prev]

NoDataName == "<no data_name>"

\* None as the argument input_signal_source or signal_source.
NoSignalSource == "<None>"

NodeIds(mc) == {n.id : n \in mc.nodes}

\* self._graph.nodes[node_id]
NodeAttributes(mc, node_id) == CHOOSE n \in mc.nodes : n.id = node_id

\* The outcome of a method: the chain after it, the exception and the value.
ChainOutcome(mc, exc, ret) == [mc |-> mc, exc |-> exc, ret |-> ret]

\* MeasurementChainGraph._raise_if_node_exist
_raise_if_node_exist(mc, node_id) ==
    IF node_id \in NodeIds(mc)
    THEN Raise("KeyError", "The internal graph already contains a node with the id")
    ELSE NoException

\* MeasurementChainGraph._raise_if_invalid_signal_type
_raise_if_invalid_signal_type(signal_type) ==
    IF signal_type \notin {"analog", "digital"}
    THEN Raise("ValueError", "is an invalid signal type.")
    ELSE NoException

\* MeasurementChainGraph._raise_if_data_exist
_raise_if_data_exist(mc, name) ==
    IF \E n \in mc.nodes : n.data_name # NoDataName /\ n.data_name = name
    THEN Raise("ValueError", "The measurement chain already contains a data set with the name")
    ELSE NoException

\* MeasurementChainGraph._check_and_get_node_name
_check_and_get_node_name(mc, node_name) ==
    IF node_name = NoSignalSource THEN ChainOutcome(mc, NoException, mc.prev)
    ELSE IF node_name \notin NodeIds(mc)
    THEN ChainOutcome(mc, Raise("ValueError", "No signal with source found"), "")
    ELSE ChainOutcome(mc, NoException, node_name)

\* DiGraph.add_node(node_id, signal_type=..., unit=...): a node that exists
\* keeps its other attributes.
ChainAddNode(mc, node_id, signal_type, unit) ==
    [mc EXCEPT !.nodes =
        {n \in @ : n.id # node_id}
        \cup {[id |-> node_id, signal_type |-> signal_type, unit |-> unit,
               data_name |-> IF node_id \in NodeIds(mc)
                             THEN NodeAttributes(mc, node_id).data_name
                             ELSE NoDataName]}]

\* _add_signal as it would be without the check that the node is new.
_add_signal_existence_not_checked(mc, node_id, signal_type, unit) ==
    IF _raise_if_invalid_signal_type(signal_type) # NoException
    THEN ChainOutcome(mc, _raise_if_invalid_signal_type(signal_type), "")
    ELSE ChainOutcome([ChainAddNode(mc, node_id, signal_type, unit) EXCEPT !.prev = node_id],
                      NoException, "")

\* MeasurementChainGraph._add_signal
_add_signal(mc, node_id, signal_type, unit) ==
    IF _raise_if_node_exist(mc, node_id) # NoException
    THEN ChainOutcome(mc, _raise_if_node_exist(mc, node_id), "")
    ELSE IF _raise_if_invalid_signal_type(signal_type) # NoException
    THEN ChainOutcome(mc, _raise_if_invalid_signal_type(signal_type), "")
    ELSE ChainOutcome([ChainAddNode(mc, node_id, signal_type, unit) EXCEPT !.prev = node_id],
                      NoException, "")

\* MeasurementChainGraph.__init__ with valid arguments
MeasurementChainGraph(source_name, output_signal_type, output_signal_unit) ==
    _add_signal(MeasurementChain({}, {}, NoSignalSource),
                source_name, output_signal_type, output_signal_unit).mc

\* MeasurementChainGraph.add_transformation
add_transformation(mc, name, output_signal_type, output_signal_unit, input_signal_source) ==
    IF _check_and_get_node_name(mc, input_signal_source).exc # NoException
    THEN _check_and_get_node_name(mc, input_signal_source)
    ELSE IF _add_signal(mc, name, output_signal_type, output_signal_unit).exc # NoException
    THEN _add_signal(mc, name, output_signal_type, output_signal_unit)
    ELSE ChainOutcome(
            [_add_signal(mc, name, output_signal_type, output_signal_unit).mc
                EXCEPT !.edges = @ \cup {<<_check_and_get_node_name(mc, input_signal_source).ret,
                                           name>>}],
            NoException, "")

\* MeasurementChainGraph.add_signal_data
add_signal_data(mc, name, signal_source) ==
    IF _raise_if_data_exist(mc, name) # NoException
    THEN ChainOutcome(mc, _raise_if_data_exist(mc, name), "")
    ELSE IF _check_and_get_node_name(mc, signal_source).exc # NoException
    THEN _check_and_get_node_name(mc, signal_source)
    ELSE ChainOutcome(
            [mc EXCEPT !.nodes =
                {n \in @ : n.id # _check_and_get_node_name(mc, signal_source).ret}
                \cup {[NodeAttributes(mc, _check_and_get_node_name(mc, signal_source).ret)
                          EXCEPT !.data_name = name]}],
            NoException, "")

\* The input_signal_source attach_transformation goes on with.
AttachSource(mc, input_signal_source) ==
    IF input_signal_source = NoSignalSource THEN mc.prev ELSE input_signal_source

\* MeasurementChainGraph.attach_transformation; transformation is a
\* SignalTransformation(name, input_signal, output_signal).
attach_transformation(mc, transformation, input_signal_source) ==
    IF AttachSource(mc, input_signal_source) \notin NodeIds(mc)
    THEN ChainOutcome(mc, Raise("KeyError", "self._graph.nodes[input_signal_source]"), "")
    ELSE IF \/ transformation.input_signal.signal_type
               # NodeAttributes(mc, AttachSource(mc, input_signal_source)).signal_type
            \/ transformation.input_signal.unit
               # NodeAttributes(mc, AttachSource(mc, input_signal_source)).unit
    THEN ChainOutcome(mc, Raise("ValueError", "The provided transformations input signal is incompatible"), "")
    ELSE add_transformation(mc, transformation.name,
                            transformation.output_signal.signal_type,
                            transformation.output_signal.unit,
                            AttachSource(mc, input_signal_source))

\* The arguments of the calls.
source_name == "source"

TransformationNames == {source_name, "t1", "t2"}

SignalSources == TransformationNames \cup {"what", NoSignalSource}

SignalTypes == {"analog", "digital", "some type"}

SignalUnits == {"V", "m"}

DataNames == {"my data"}

\* Signal(signal_type, unit)
Signal == [signal_type : {"analog", "digital"}, unit : SignalUnits]

\* SignalTransformation(name, input_signal, output_signal)
SignalTransformation ==
    [name : TransformationNames,
     input_signal : {g \in Signal : g.unit = "V" \/ g.signal_type = "analog"},
     output_signal : [signal_type : SignalTypes, unit : {"V"}]]

\* The chain after MeasurementChainGraph(name, "source", error, type, "V").
InitChain ==
    /\ \E signal_type \in {"analog", "digital"} :
          /\ mc_nodes = MeasurementChainGraph(source_name, signal_type, "V").nodes
          /\ mc_edges = MeasurementChainGraph(source_name, signal_type, "V").edges
          /\ mc_prev = MeasurementChainGraph(source_name, signal_type, "V").prev
    /\ mc_call = [op |-> "__init__", source |-> NoSignalSource, exc |-> NoException]
    /\ CoreIdle
    /\ ObjectsIdle
    /\ TimeIdle
    /\ ExpressionIdle

\* The chain a call leaves behind, and the call with its exception.
ChainCalled(op, source, out) ==
    /\ mc_nodes' = out.mc.nodes
    /\ mc_edges' = out.mc.edges
    /\ mc_prev' = out.mc.prev
    /\ mc_call' = [op |-> op, source |-> source, exc |-> out.exc]
    /\ UNCHANGED <<core_vars, object_vars, time_vars, expression_vars>>

AddTransformation ==
    \E name \in TransformationNames, signal_type \in SignalTypes, unit \in {"V"},
       source \in SignalSources :
        \E out \in {add_transformation(MeasurementChain(mc_nodes, mc_edges, mc_prev),
                                       name, signal_type, unit, source)} :
            ChainCalled("add_transformation", source, out)

AttachTransformation ==
    \E transformation \in SignalTransformation, source \in SignalSources :
        \E out \in {attach_transformation(MeasurementChain(mc_nodes, mc_edges, mc_prev),
                                          transformation, source)} :
            ChainCalled("attach_transformation", source, out)

AddSignalData ==
    \E name \in DataNames, source \in SignalSources :
        \E out \in {add_signal_data(MeasurementChain(mc_nodes, mc_edges, mc_prev),
                                    name, source)} :
            ChainCalled("add_signal_data", source, out)

NextChain == AddTransformation \/ AttachTransformation \/ AddSignalData

SpecChain == InitChain /\ [][NextChain]_vars

\* ------------------------------------------------ MathematicalExpression
\* Strings are sequences of characters.  An expression is the set of its
\* free symbols, each the string of its name; _parameters is the set of its
\* items <<name, value>>, with one item per name.
RECURSIVE Join(_, _)

\* ", ".join(names) for a sequence of strings
Join(names, i) ==
    IF i > Len(names) THEN <<>>
    ELSE IF i = Len(names) THEN names[i]
    ELSE names[i] \o <<",", " ">> \o Join(names, i + 1)

\* str(self._expression.free_symbols): "set()" for no symbol, otherwise the
\* names in braces, in one of the orders a set may be iterated in.
StrOfSet(symbols) ==
    IF symbols = {} THEN {<<"s", "e", "t", "(", ")">>}
    ELSE {<<"{">> \o Join(order, 1) \o <<"}">> :
            order \in {o \in [1..Cardinality(symbols) -> symbols] :
                         \A i, j \in 1..Cardinality(symbols) : o[i] = o[j] => i = j}}

\* name in text, for two strings
Contains(text, name) ==
    \E i \in 0..(Len(text) - Len(name)) : SubSeq(text, i + 1, i + Len(name)) = name

\* A name that is no str.
NotAString == <<"<int>">>

Keys(params) == {item[1] : item \in params}

\* self._parameters[name] = value
SetItem(params, name, value) == {item \in params : item[1] # name} \cup {<<name, value>>}

\* MathematicalExpression.set_parameter: the outcomes, one for every string
\* that str may give for the set of the free symbols.
set_parameter(symbols, params, name, value) ==
    IF name = NotAString
    THEN {[exc |-> Raise("TypeError", "Parameter name must be a string"),
           parameters |-> params]}
    ELSE {IF ~Contains(text, name)
          THEN [exc |-> Raise("ValueError", "The expression does not have a parameter with name"),
                parameters |-> params]
          ELSE [exc |-> NoException, parameters |-> SetItem(params, name, value)] :
             text \in StrOfSet(symbols)}

\* MathematicalExpression.get_variable_names
get_variable_names(symbols, params) == {var \in symbols : var \notin Keys(params)}

\* MathematicalExpression.num_parameters
num_parameters(params) == Cardinality(params)

\* MathematicalExpression.num_variables
num_variables(symbols, params) == Cardinality(symbols) - Cardinality(params)

\* The names of the symbols of the expressions and the names handed to
\* set_parameter.
SymbolNames == {<<"a">>, <<"b">>, <<"a", "b">>, <<"b", "a">>}

ParameterNames == SymbolNames \cup {<<"c">>, <<>>, NotAString}

ParameterValues == {1, 2}

\* MathematicalExpression(expression, parameters) with valid arguments: the
\* keys of the dictionary are free symbols.
InitExpression ==
    /\ free_symbols \in {syms \in SUBSET SymbolNames : Cardinality(syms) <= MaxSymbols}
    /\ parameters \in {{<<name, 1>> : name \in keys} : keys \in SUBSET free_symbols}
    /\ me_call = [op |-> "__init__", name |-> <<>>, exc |-> NoException]
    /\ CoreIdle
    /\ ObjectsIdle
    /\ TimeIdle
    /\ ChainIdle

SetParameter ==
    /\ \E name \in ParameterNames, value \in ParameterValues :
        \E out \in set_parameter(free_symbols, parameters, name, value) :
            /\ parameters' = out.parameters
            /\ me_call' = [op |-> "set_parameter", name |-> name, exc |-> out.exc]
    /\ UNCHANGED <<free_symbols, core_vars, object_vars, time_vars, chain_vars>>

NextExpression == SetParameter

SpecExpression == InitExpression /\ [][NextExpression]_vars

\* ----------------------------------------------------- helpers of claims
IsAdd == last_call.op = "add_coordinate_system"

IsGet == last_call.op = "get_local_coordinate_system"

Succeeded == last_call.exc = NoException

\* All node sequences of g that lead from source to target along edges.  A
\* path with the fewest edges visits no node twice, so sequences of at most
\* all the nodes are enough.
Walks(g, source, target) ==
    {w \in UNION {[1..k -> g.nodes] : k \in 2..(Cardinality(g.nodes) + 1)} :
        /\ w[1] = source
        /\ w[Len(w)] = target
        /\ \A i \in 1..(Len(w) - 1) : has_edge(g, w[i], w[i + 1])}

\* The edge LCSs along a walk composed left to right:
\* ((e1 + e2) + e3) + ...
RECURSIVE LeftToRight(_, _)
LeftToRight(g, w) ==
    IF Len(w) = 2 THEN EdgeData(g, w[1], w[2]).lcs
    ELSE LcsAdd(LeftToRight(g, SubSeq(w, 1, Len(w) - 1)),
                EdgeData(g, w[Len(w) - 1], w[Len(w)]).lcs)

\* b undoes a: composing them either way gives the identity.
IsInverse(a, b) == LcsAdd(a, b) = IdentityLcs /\ LcsAdd(b, a) = IdentityLcs

\* ------------------------------------------------------------------ claims

\* C1: a lookup between two distinct existing systems succeeds; with a direct
\* edge it returns that edge's LCS, without one it returns the left-to-right
\* composition of the edge LCSs along a path that no other path between the
\* two systems undercuts in its number of edges.
C1_ShortestPathComposition ==
    (/\ IsGet
     /\ last_call.name \in graph_before.nodes
     /\ last_call.parent \in graph_before.nodes
     /\ last_call.name # last_call.parent)
    => /\ Succeeded
       /\ IF has_edge(graph_before, last_call.name, last_call.parent)
          THEN last_call.ret
                  = EdgeData(graph_before, last_call.name, last_call.parent).lcs
          ELSE \E w \in Walks(graph_before, last_call.name, last_call.parent) :
                  /\ \A q \in Walks(graph_before, last_call.name, last_call.parent) :
                        Len(w) <= Len(q)
                  /\ last_call.ret = LeftToRight(graph_before, w)

\* C1 witness: a lookup that composed three edges.
C1_Witness == IsGet /\ Succeeded /\ Len(last_call.path) = 4

\* C2: for every two distinct systems X and Z, the composition along any
\* path from X to Z over the stored edges is what the lookup of (X, Z)
\* returns.
C2_PathIndependence ==
    \A x \in graph.nodes, z \in graph.nodes :
       x # z =>
          \A w \in Walks(graph, x, z) :
             \A out \in get_local_coordinate_system(graph, x, z) :
                out.exc = NoException /\ out.ret = LeftToRight(graph, w)

\* C3: every defined edge has a reverse edge that carries the inverse of its
\* LCS, and the lookups of the two directions return inverse LCSs.
C3_DefinedEdgesSymmetric ==
    \A e \in graph.edges :
       ~e.calculated =>
          /\ has_edge(graph, e.v, e.u)
          /\ EdgeData(graph, e.v, e.u).lcs = invert(e.lcs)
          /\ \A fwd \in get_local_coordinate_system(graph, e.u, e.v),
                bwd \in get_local_coordinate_system(graph, e.v, e.u) :
                /\ fwd.exc = NoException
                /\ bwd.exc = NoException
                /\ bwd.ret = invert(fwd.ret)

\* C4: the graph is connected: every system reaches every system, and the
\* path search of a lookup between two systems is never without a path.
C4_Connected ==
    /\ \A n \in graph.nodes : Reachable(graph, {n}, {n}) = graph.nodes
    /\ \A x \in graph.nodes, z \in graph.nodes : shortest_path(graph, x, z) # {}
    /\ last_call.exc.type # "NetworkXNoPath"

\* C4 witness: a lookup succeeded in a manager of at least three systems.
C4_Witness == IsGet /\ Succeeded /\ Cardinality(graph.nodes) >= 3

\* C5: add_coordinate_system with a name that is a system already fails and
\* leaves the graph as it was.
C5_DuplicateNameRejected ==
    (IsAdd /\ last_call.name \in graph_before.nodes)
    => (~Succeeded /\ graph = graph_before)

\* C6: add_coordinate_system with a parent that is no system fails, adds no
\* node (the new name least of all) and adds or changes no edge.
C6_UnknownParentRejected ==
    (IsAdd /\ last_call.parent \notin graph_before.nodes)
    => /\ ~Succeeded
       /\ graph.nodes = graph_before.nodes
       /\ graph.edges = graph_before.edges
       /\ (last_call.name \notin graph_before.nodes => last_call.name \notin graph.nodes)

\* C6 witness: a new system was to be added, with an LCS, under a parent that
\* does not exist.
C6_Witness ==
    /\ IsAdd
    /\ last_call.lcs.cls = "LocalCoordinateSystem"
    /\ last_call.parent \notin graph_before.nodes
    /\ last_call.name \notin graph_before.nodes
    /\ Cardinality(graph_before.nodes) >= 2

\* C7: a lookup that names a system the manager does not have fails, returns
\* no transform and leaves the graph as it was.
C7_UnknownSystemLookupFails ==
    (/\ IsGet
     /\ \/ last_call.name \notin graph_before.nodes
        \/ last_call.parent \notin graph_before.nodes)
    => /\ ~Succeeded
       /\ last_call.ret = NoneValue
       /\ graph = graph_before

\* C7 witness: a lookup from an existing system to one that does not exist.
C7_Witness ==
    /\ IsGet
    /\ last_call.name \in graph_before.nodes
    /\ last_call.parent \notin graph_before.nodes
    /\ graph_before.edges # {}

\* C8: the lookup of an existing system against itself returns the identity
\* and adds no edge.
C8_SelfLookupIsIdentity ==
    (IsGet /\ last_call.name = last_call.parent
        /\ last_call.name \in graph_before.nodes)
    => /\ Succeeded
       /\ last_call.ret = IdentityLcs
       /\ graph.edges = graph_before.edges

\* C9: after a successful lookup between two systems that had no direct
\* edge, the edge (child, parent) carries the returned LCS, the edge
\* (parent, child) its inverse, and both are flagged as computed.
C9_ComputedEdgesCached ==
    (IsGet /\ Succeeded
        /\ ~has_edge(graph_before, last_call.name, last_call.parent))
    => /\ has_edge(graph, last_call.name, last_call.parent)
       /\ has_edge(graph, last_call.parent, last_call.name)
       /\ EdgeData(graph, last_call.name, last_call.parent).lcs = last_call.ret
       /\ EdgeData(graph, last_call.name, last_call.parent).calculated
       /\ IsInverse(last_call.ret,
                    EdgeData(graph, last_call.parent, last_call.name).lcs)
       /\ EdgeData(graph, last_call.parent, last_call.name).calculated

\* C9 witness: a lookup succeeded where there was no direct edge.
C9_Witness ==
    /\ IsGet
    /\ Succeeded
    /\ ~has_edge(graph_before, last_call.name, last_call.parent)
    /\ last_call.ret # IdentityLcs

\* C10: after a successful lookup, the same lookup made again returns the
\* same LCS and leaves the graph as it is; no ordered pair of systems ever
\* has two edges.
C10_LookupIdempotent ==
    /\ (IsGet /\ Succeeded)
       => \A again \in get_local_coordinate_system(graph, last_call.name,
                                                   last_call.parent) :
             /\ again.exc = NoException
             /\ again.ret = last_call.ret
             /\ again.graph = graph
    /\ \A e \in graph.edges, f \in graph.edges :
          (e.u = f.u /\ e.v = f.v) => e = f

\* C10 witness: a lookup was repeated: it found the computed edge that an
\* earlier lookup had cached.
C10_Witness ==
    /\ IsGet
    /\ Succeeded
    /\ has_edge(graph_before, last_call.name, last_call.parent)
    /\ EdgeData(graph_before, last_call.name, last_call.parent).calculated

\* C11: after a successful add_coordinate_system(name, parent, lcs) the nodes
\* are the nodes of before and name, the edge (name, parent) carries lcs, the
\* edge (parent, name) carries lcs.invert(), both are flagged as defined (not
\* calculated), and every edge of before is still there as it was.
C11_AddEffect ==
    (IsAdd /\ Succeeded)
    => /\ graph.nodes = graph_before.nodes \cup {last_call.name}
       /\ has_edge(graph, last_call.name, last_call.parent)
       /\ has_edge(graph, last_call.parent, last_call.name)
       /\ EdgeData(graph, last_call.name, last_call.parent).lcs = last_call.lcs
       /\ ~EdgeData(graph, last_call.name, last_call.parent).calculated
       /\ EdgeData(graph, last_call.parent, last_call.name).lcs
             = invert(last_call.lcs)
       /\ ~EdgeData(graph, last_call.parent, last_call.name).calculated
       /\ graph_before.edges \subseteq graph.edges

\* The errors the manager raises, at the present graph, in each of the three
\* cases: an add with a name that is a system (and a parent that is one), an
\* add of a new name under a parent that is no system, and a lookup that
\* names a system that is none.
DuplicateNameErrors ==
    {add_coordinate_system(graph, name, parent, LcsRotZ).exc :
        name \in graph.nodes, parent \in graph.nodes}

UnknownParentErrors ==
    {add_coordinate_system(graph, name, parent, LcsRotZ).exc :
        name \in NameArguments(graph) \ graph.nodes,
        parent \in NameArguments(graph) \ graph.nodes}

UnknownSystemErrors ==
    {out.exc : out \in UNION {get_local_coordinate_system(graph, child, parent) :
        child \in NameArguments(graph),
        parent \in NameArguments(graph) \ graph.nodes}}
    \cup
    {out.exc : out \in UNION {get_local_coordinate_system(graph, child, parent) :
        child \in NameArguments(graph) \ graph.nodes,
        parent \in NameArguments(graph)}}

\* C18: adding a duplicate name, adding under an unknown parent and looking
\* up an unknown name each raise an error, and the error (its type and its
\* message) of one case is never the error of another.
C18_GraphErrorsDistinct ==
    /\ NoException \notin
          (DuplicateNameErrors \cup UnknownParentErrors \cup UnknownSystemErrors)
    /\ DuplicateNameErrors \cap UnknownParentErrors = {}
    /\ DuplicateNameErrors \cap UnknownSystemErrors = {}
    /\ UnknownParentErrors \cap UnknownSystemErrors = {}

\* Two coordinate systems are equal in orientation and in origin.
LcsEqual(a, b) ==
    /\ a.cls = "LocalCoordinateSystem"
    /\ b.cls = "LocalCoordinateSystem"
    /\ a.basis = b.basis
    /\ a.origin = b.origin

\* C19: (A + B) - B equals A in orientation and in origin, for all valid
\* coordinate systems A and B.
C19_SubtractionUndoesAddition ==
    \A i \in 1..(Len(lcs_ops) - 1) :
       (lcs_ops[i] = "__add__" /\ lcs_ops[i + 1] = "__sub__")
       => LcsEqual(lcs_hist[i + 2], lcs_hist[i])

\* A + B differs from A, B is a rotation with a translation, and B was
\* subtracted again.
C19_Witness ==
    /\ lcs_ops = <<"__add__", "__sub__">>
    /\ lcs_hist[2].basis # lcs_hist[1].basis
    /\ lcs_hist[2].origin # lcs_hist[1].origin
    /\ lcs_hist[1].origin # <<0, 0, 0>>
    /\ lcs_rhs.origin # <<0, 0, 0>>
    /\ lcs_hist[3] = lcs_hist[1]

\* C20: invert() returns the orientation transposed and the origin
\* -(orientation transposed) * origin, and L.invert().invert() equals L in
\* orientation and in origin.
C20_InvertTwiceIsIdentity ==
    /\ \A i \in 1..Len(lcs_ops) :
          lcs_ops[i] = "invert"
          => /\ lcs_hist[i + 1].cls = "LocalCoordinateSystem"
             /\ \A r \in Axes : \A c \in Axes :
                   lcs_hist[i + 1].basis[r][c] = lcs_hist[i].basis[c][r]
             /\ \A r \in Axes :
                   lcs_hist[i + 1].origin[r]
                      = 0 - (lcs_hist[i].basis[1][r] * lcs_hist[i].origin[1]
                             + lcs_hist[i].basis[2][r] * lcs_hist[i].origin[2]
                             + lcs_hist[i].basis[3][r] * lcs_hist[i].origin[3])
    /\ \A i \in 1..(Len(lcs_ops) - 1) :
          (lcs_ops[i] = "invert" /\ lcs_ops[i + 1] = "invert")
          => LcsEqual(lcs_hist[i + 2], lcs_hist[i])

\* A coordinate system that is not its own inverse was inverted twice.
C20_Witness ==
    /\ lcs_ops = <<"invert", "invert">>
    /\ lcs_hist[2].basis # lcs_hist[1].basis
    /\ lcs_hist[2].origin # lcs_hist[1].origin
    /\ lcs_hist[1].origin # <<0, 0, 0>>
    /\ lcs_hist[3] = lcs_hist[1]

IsExport == last_call.op = "to_tree"

C16_UniqueRoot ==
    /\ {n \in graph.nodes : out_degree(ExportedGraph(graph), n) = 0}
          = {base_coordinate_system_name}
    /\ (IsExport /\ Succeeded)
       => last_call.ret.root_system_name = base_coordinate_system_name

RECURSIVE RootedNames(_)

\* The names whose reference chain leads to the root of the tree in at most
\* k records.
RootedNames(k) ==
    IF k = 0 THEN {tree_root}
    ELSE RootedNames(k - 1)
            \cup {tree_list[i].name :
                    i \in {j \in 1..Len(tree_list) :
                             tree_list[j].reference_system \in RootedNames(k - 1)}}

\* The reference chain of every record of the list leads to the root.
ChainsLeadToRoot ==
    \A i \in 1..Len(tree_list) :
       tree_list[i].reference_system \in RootedNames(Len(tree_list))

\* The managers built by up to two add_cs calls with new names.
BuiltManagers ==
    LET root == {CoordinateSystemManager(base_coordinate_system_name)}
        grown(gs) == {add_cs(g, name, parent, lcs).graph :
                        g \in gs, name \in {"a", "b"}, parent \in {"a", "b", "base"},
                        lcs \in RecordTransformations}
        valid(gs) == {g \in gs : Cardinality(g.edges) = 2 * (Cardinality(g.nodes) - 1)}
    IN root \cup valid(grown(root)) \cup valid(grown(valid(grown(root))))

\* The managers of which the tree handed to from_tree is an export.
SourceManagers ==
    {g \in BuiltManagers :
        \E out \in to_tree(g) :
           /\ out.exc = NoException
           /\ out.ret.root_system_name = tree_root
           /\ out.ret.coordinate_systems = {tree_list[i] : i \in 1..Len(tree_list)}
           /\ Cardinality(out.ret.coordinate_systems) = Len(tree_list)}

\* C12: for a manager built by add_cs alone, from_tree of its to_tree returns
\* a manager with the same nodes and the same defined edges, each with an
\* equal LCS.
C12_ExportImportRoundTrip ==
    (SourceManagers # {})
    => <>(/\ pc = "done"
          /\ \A g \in SourceManagers :
                /\ csm_graph.nodes = g.nodes
                /\ ExportedGraph(csm_graph).edges = ExportedGraph(g).edges)

\* C13: from_tree of a list with a record whose reference system never
\* becomes a system of the manager ends by raising an error.
C13_DanglingRecordRaises ==
    (~ChainsLeadToRoot) => <>(pc = "raised")

\* C14: for a list in which the reference chain of every record leads to the
\* root, in any order, the loop of from_tree ends, on return the name of
\* every record is a system of the manager, and every pass that does not end
\* the loop has added a system.
C14_WellFormedImportTerminates ==
    ChainsLeadToRoot
    => /\ <>(pc = "done")
       /\ [](pc = "done"
             => \A i \in 1..Len(tree_list) :
                   has_coordinate_system(csm_graph, tree_list[i].name))
       /\ []((pc = "while" /\ cs_index > 0 /\ ~all_systems_included)
             => pass_added)

\* from_tree has returned for a list that names a system before the system
\* it refers to, so that the system is added in the second pass.
C14_Witness ==
    /\ pc = "done"
    /\ ChainsLeadToRoot
    /\ Len(tree_list) = 2
    /\ tree_list[1].name = "b"
    /\ tree_list[1].reference_system = "a"
    /\ tree_list[2].name = "a"
    /\ tree_list[2].reference_system = tree_root
    /\ {"a", "b"} \subseteq csm_graph.nodes

RECURSIVE MergedBelow(_, _)

\* The managers merged into csm, directly or through up to k managers.
MergedBelow(csm, k) ==
    IF k = 0 THEN {}
    ELSE {m \in ManagerNames : merged_into[m] = csm}
            \cup UNION {MergedBelow(m, k - 1) :
                          m \in {n \in ManagerNames : merged_into[n] = csm}}

\* C17: the subsystem data of an export lists every manager merged into the
\* exported one, directly or nested at any depth, exactly once, each with its
\* name, its root system, the name of the manager it was merged into as
\* parent_system, and the names of its systems.
C17_SubsystemDataComplete ==
    (exported # "")
    => /\ {subsystem_data[i].name : i \in 1..Len(subsystem_data)}
             = MergedBelow(exported, Cardinality(ManagerNames))
       /\ \A i \in 1..Len(subsystem_data) : \A j \in 1..Len(subsystem_data) :
             (subsystem_data[i].name = subsystem_data[j].name) => (i = j)
       /\ \A i \in 1..Len(subsystem_data) :
             /\ subsystem_data[i].root_cs = ManagerRoot[subsystem_data[i].name]
             /\ subsystem_data[i].parent_system
                   = merged_into[subsystem_data[i].name]
             /\ subsystem_data[i].members
                   = ManagerSystems[subsystem_data[i].name]

\* The export of a manager with a subsystem that has a subsystem with a
\* subsystem, and a second direct subsystem.
C17_Witness ==
    /\ exported = "m0"
    /\ merged_into["m3"] = "m1"
    /\ merged_into["m4"] = "m3"
    /\ merged_into["m1"] = "m0"
    /\ merged_into["m2"] = "m0"
    /\ Len(subsystem_data) = 4

\* The edges of g that are not computed by a lookup.
DefinedEdges(g) == {e \in g.edges : ~e.calculated}

\* C26: get_local_coordinate_system leaves the nodes as they are, adds,
\* removes and re-flags no defined edge and changes the LCS of none; all it
\* changes is the computed edge pair between the two systems it was called
\* with.
C26_LookupFrame ==
    IsGet
    => /\ graph.nodes = graph_before.nodes
       /\ DefinedEdges(graph) = DefinedEdges(graph_before)
       /\ \A e \in (graph.edges \ graph_before.edges)
                      \cup (graph_before.edges \ graph.edges) :
             /\ e.calculated
             /\ \/ e.u = last_call.name /\ e.v = last_call.parent
                \/ e.u = last_call.parent /\ e.v = last_call.name

\* A lookup over two edges has added its computed edge pair to a graph with
\* four defined edges.
C26_Witness ==
    /\ IsGet
    /\ Succeeded
    /\ Len(last_call.path) = 3
    /\ Cardinality(graph.edges \ graph_before.edges) = 2
    /\ Cardinality(DefinedEdges(graph)) = 4

\* C21: +, - and invert return new instances and leave the basis and the
\* origin of the instances they were applied to as they were: every instance
\* holds what it was created with, and no two instances share a variable.
C21_InstancesImmutable ==
    /\ \A i \in 1..Len(lcs_objects) :
          ValueOf(xr_variables, lcs_objects[i]) = lcs_created[i]
    /\ \A i \in 1..Len(lcs_objects) : \A j \in 1..Len(lcs_objects) :
          (i # j)
          => {lcs_objects[i].basis, lcs_objects[i].origin}
                \cap {lcs_objects[j].basis, lcs_objects[j].origin} = {}

\* An instance with a basis that is not symmetric and an origin that is not
\* zero was inverted, and the result inverted again.
C21_Witness ==
    /\ Len(lcs_objects) = 4
    /\ lcs_created[1].basis # transpose_xarray_axis_data(lcs_created[1].basis)
    /\ lcs_created[1].origin # <<0, 0, 0>>
    /\ lcs_created[3].basis = transpose_xarray_axis_data(lcs_created[1].basis)
    /\ lcs_created[3].origin # lcs_created[1].origin
    /\ lcs_created[4] = lcs_created[1]

\* C23: a constructor call with two or more values that are not in
\* increasing order raises ValueError, whatever the type of the input and
\* whether or not a reference time is passed, and no Time instance holds an
\* index that is not in increasing order.
C23_NonMonotonicRaises ==
    /\ (time_call.op = "__init__" /\ time_call.args[1].type # "Time"
        /\ ~is_monotonic_increasing(time_call.args[1].values))
       => time_call.exc.type = "ValueError"
    /\ (time_obj.cls = "Time" /\ IsIndex(time_obj.time))
       => is_monotonic_increasing(time_obj.time.values)
    /\ (time_call.op # "None" /\ time_call.exc = NoException
        /\ time_call.op \notin {"__eq__", "equals"} /\ IsIndex(time_call.ret.time))
       => is_monotonic_increasing(time_call.ret.time.values)

\* A constructor call on a decreasing quantity with a reference time has
\* raised.
C23_Witness ==
    /\ time_call.op = "__init__"
    /\ time_call.args[1].type = "Quantity"
    /\ time_call.args[1].values = <<2, 1>>
    /\ time_call.refs[1] # NoTimeRef
    /\ time_call.exc.type = "ValueError"

\* C24: Time(tdi, r1) == Time(tdi, r2) is true in every element for a
\* TimedeltaIndex tdi and any two reference times; equals is true only if
\* the reference times are the same too.
C24_EqIgnoresReference ==
    (/\ time_call.op \in {"__eq__", "equals"}
     /\ time_call.args[1].type = "TimedeltaIndex"
     /\ time_call.args[1] = time_call.args[2]
     /\ time_call.refs[1] # NoTimeRef
     /\ time_call.refs[2] # NoTimeRef)
    => /\ time_call.exc = NoException
       /\ time_call.op = "__eq__"
          => \A i \in DOMAIN time_call.ret : time_call.ret[i]
       /\ time_call.op = "equals"
          => time_call.ret = (time_call.refs[1] = time_call.refs[2])

\* C22: Time.union returns the values of all axes, each once, in increasing
\* order; every ordering of the axes gives the same result; and the union
\* of an axis with itself is that axis.
C22_UnionIsSetUnion ==
    (time_call.op = "union" /\ time_call.exc = NoException)
    => /\ Elements(time_call.ret.time.values)
          = UNION {Elements(time_call.args[i].values) : i \in DOMAIN time_call.args}
       /\ \A i \in 1..(Len(time_call.ret.time.values) - 1) :
              time_call.ret.time.values[i] < time_call.ret.time.values[i + 1]
       /\ \A p \in Permutations(DOMAIN time_call.args) :
              union([i \in DOMAIN time_call.args |-> time_call.args[p[i]]]).ret
              = time_call.ret
       /\ (Len(time_call.args) = 2 /\ time_call.args[1] = time_call.args[2])
          => time_call.ret = Time(time_call.args[1], NoTimeRef).ret

\* The names of the records differ from each other.
DistinctNames ==
    \A i, j \in 1..Len(tree_list) : tree_list[i].name = tree_list[j].name => i = j

\* The manager that a set of records describes: the root and the names as
\* nodes, and for every record but one of the root itself the edge from the
\* name to the reference system with its LCS and the edge back with the
\* inverted LCS.
ManagerOfRecords(root, records) ==
    [nodes |-> {root} \cup {r.name : r \in records},
     edges |-> {[u |-> r.name, v |-> r.reference_system,
                 lcs |-> r.transformation, calculated |-> FALSE] :
                   r \in {q \in records : q.name # root}}
               \cup {[u |-> r.reference_system, v |-> r.name,
                      lcs |-> invert(r.transformation), calculated |-> FALSE] :
                        r \in {q \in records : q.name # root}}]

\* C27: for a list of records with distinct names whose reference chains
\* lead to the root, from_tree returns the manager that the set of the
\* records describes, so every order of the list gives the same nodes, the
\* same defined edges and the same LCS on each edge.
C27_ImportIgnoresOrder ==
    (pc = "done" /\ DistinctNames /\ ChainsLeadToRoot)
    => csm_graph = ManagerOfRecords(tree_root, {tree_list[i] : i \in 1..Len(tree_list)})

\* from_tree has returned for a list that names a system before its
\* reference system.
C27_Witness ==
    /\ pc = "done"
    /\ Len(tree_list) = 2
    /\ DistinctNames
    /\ ChainsLeadToRoot
    /\ tree_list[1].reference_system = tree_list[2].name

RECURSIVE ForLoop(_, _, _)

\* The for loop of from_tree from record i on, as a function of the manager,
\* the flag and the list.
ForLoop(st, coordinate_systems, i) ==
    IF i > Len(coordinate_systems) \/ st.exc # NoException THEN st
    ELSE IF has_coordinate_system(st.graph, coordinate_systems[i].name)
    THEN ForLoop(st, coordinate_systems, i + 1)
    ELSE IF has_coordinate_system(st.graph, coordinate_systems[i].reference_system)
    THEN ForLoop([graph |-> add_cs(st.graph, coordinate_systems[i].name,
                                   coordinate_systems[i].reference_system,
                                   coordinate_systems[i].transformation).graph,
                  all_systems_included |-> st.all_systems_included,
                  exc |-> add_cs(st.graph, coordinate_systems[i].name,
                                 coordinate_systems[i].reference_system,
                                 coordinate_systems[i].transformation).exc],
                 coordinate_systems, i + 1)
    ELSE ForLoop([st EXCEPT !.all_systems_included = FALSE], coordinate_systems, i + 1)

RECURSIVE WhileLoop(_, _, _)

\* The while loop of from_tree for a number of passes: the manager, and
\* whether the loop has ended within them.
WhileLoop(g, coordinate_systems, passes) ==
    IF passes = 0 THEN [graph |-> g, returned |-> FALSE]
    ELSE LET pass == ForLoop([graph |-> g, all_systems_included |-> TRUE,
                              exc |-> NoException], coordinate_systems, 1)
         IN IF pass.exc # NoException THEN [graph |-> pass.graph, returned |-> FALSE]
            ELSE IF pass.all_systems_included
            THEN [graph |-> pass.graph, returned |-> TRUE]
            ELSE WhileLoop(pass.graph, coordinate_systems, passes - 1)

\* The manager from_tree returns as a function of the root system name and
\* the records alone.  Every pass but the last adds a system, so a loop that
\* ends does so within one pass more than there are records.
ManagerOfTree(root, coordinate_systems) ==
    WhileLoop(CoordinateSystemManager(root), coordinate_systems,
              Len(coordinate_systems) + 1)

\* C28: the manager from_tree returns is the one that the root system name
\* and the records determine, whatever the subsystem data of the tree are.
C28_ImportIgnoresSubsystems ==
    pc = "done"
    => ManagerOfTree(tree_root, tree_list) = [graph |-> csm_graph, returned |-> TRUE]

\* from_tree has returned a manager with added systems for a tree with
\* subsystem data.
C28_Witness ==
    /\ pc = "done"
    /\ tree_subsystems # <<>>
    /\ Cardinality(csm_graph.nodes) = 3

\* C25: add_transformation with an input_signal_source that is no signal
\* of the chain, and add_signal_data with such a signal_source, raise
\* KeyError.
C25_UnknownSourceKeyError ==
    (/\ mc_call.op \in {"add_transformation", "add_signal_data"}
     /\ mc_call.source # NoSignalSource
     /\ mc_call.source \notin {n.id : n \in mc_nodes})
    => mc_call.exc.type = "KeyError"

RECURSIVE SignalsWithin(_)

\* The signals that are at most k transformations from the source.
SignalsWithin(k) ==
    IF k = 0 THEN {source_name}
    ELSE SignalsWithin(k - 1) \cup {e[2] : e \in {d \in mc_edges : d[1] \in SignalsWithin(k - 1)}}

\* C29: after every sequence of calls, failed ones included, the graph of
\* the chain is a tree rooted at the source: no edge enters the source,
\* exactly one edge enters every other signal and every signal is reached
\* from the source; no two nodes share a name; and _prev_added_signal is
\* the name of a signal.
C29_ChainIsTree ==
    /\ \A e \in mc_edges : e[2] # source_name /\ e[1] \in {n.id : n \in mc_nodes}
    /\ \A n \in mc_nodes :
          n.id # source_name => Cardinality({e \in mc_edges : e[2] = n.id}) = 1
    /\ SignalsWithin(Cardinality(mc_nodes)) = {n.id : n \in mc_nodes}
    /\ \A n, m \in mc_nodes : n.id = m.id => n = m
    /\ mc_prev \in {n.id : n \in mc_nodes}

\* A chain of three signals after a call that failed.
C29_Witness ==
    /\ Cardinality(mc_nodes) = 3
    /\ Cardinality(mc_edges) = 2
    /\ mc_call.exc # NoException

\* C30: after any set_parameter calls every key of the parameters is a free
\* symbol of the expression, a call with another name has raised
\* ValueError, and num_variables is not negative and is the number of the
\* names get_variable_names returns.
C30_ParametersAreSymbols ==
    /\ Keys(parameters) \subseteq free_symbols
    /\ (me_call.op = "set_parameter" /\ me_call.name \notin free_symbols
        /\ me_call.name # NotAString)
       => me_call.exc.type = "ValueError"
    /\ num_variables(free_symbols, parameters) >= 0
    /\ num_variables(free_symbols, parameters)
       = Cardinality(get_variable_names(free_symbols, parameters))

====
